---------------------------- MODULE Spec2Model ----------------------------
(***************************************************************************)
(* Model of the media scrapers of d0ughnat/web-scraping:                   *)
(*   src/main.py      Reddit search scan (get_media_from_submission,       *)
(*                    get_reddit_search_media)                             *)
(*   src/practice.py  page / post scan (extract_media_from_html,           *)
(*                    get_reddit_media), duplicate removal and the         *)
(*                    Save-to-Drive loop (download_media, upload_to_drive) *)
(*                                                                         *)
(* Python strings are sequences of one-character strings, so that the      *)
(* string operations of the code (lower, endswith, split, replace,         *)
(* unquote, urljoin) are computed character by character.                  *)
(***************************************************************************)
EXTENDS Integers, Sequences, FiniteSets, TLC

(***************************************************************************)
(* Call-by-value application: the arguments are evaluated once, then the   *)
(* operator is applied to their values, as Python evaluates a call.        *)
(***************************************************************************)
Call1(F(_), a) == CHOOSE r \in {F(x) : x \in {a}} : TRUE
Call2(F(_, _), a, b) == CHOOSE r \in {F(x, y) : x \in {a}, y \in {b}} : TRUE
Call3(F(_, _, _), a, b, c) ==
    CHOOSE r \in {F(x, y, z) : x \in {a}, y \in {b}, z \in {c}} : TRUE
Call4(F(_, _, _, _), a, b, c, d) ==
    CHOOSE r \in {F(x, y, z, w) : x \in {a}, y \in {b}, z \in {c}, w \in {d}} : TRUE

(***************************************************************************)
(* Python str operations                                                   *)
(***************************************************************************)
UpperChars == <<"A","B","C","D","E","F","G","H","I","J","K","L","M",
                "N","O","P","Q","R","S","T","U","V","W","X","Y","Z">>
LowerChars == <<"a","b","c","d","e","f","g","h","i","j","k","l","m",
                "n","o","p","q","r","s","t","u","v","w","x","y","z">>
DigitChars == <<"0","1","2","3","4","5","6","7","8","9">>

\* Code point 96 cannot be written as a string literal of the language.
Backtick == "<backtick>"

\* The printable ASCII characters, code points 32..126, in order.
AsciiChars ==
    <<" ","!","\"","#","$","%","&","'","(",")","*","+",",","-",".","/",
      "0","1","2","3","4","5","6","7","8","9",":",";","<","=",">","?",
      "@","A","B","C","D","E","F","G","H","I","J","K","L","M","N","O",
      "P","Q","R","S","T","U","V","W","X","Y","Z","[","\\","]","^","_",
      Backtick,"a","b","c","d","e","f","g","h","i","j","k","l","m","n","o",
      "p","q","r","s","t","u","v","w","x","y","z","{","|","}","~">>

UpperSet == {UpperChars[k] : k \in 1..26}
LowerSet == {LowerChars[k] : k \in 1..26}
DigitSet == {DigitChars[k] : k \in 1..10}
LowerOf == [c \in UpperSet |-> LowerChars[CHOOSE k \in 1..26 : UpperChars[k] = c]]
DigitOf == [c \in DigitSet |-> (CHOOSE k \in 1..10 : DigitChars[k] = c) - 1]

\* str.lower() on one character
LowerChar(c) == IF c \in UpperSet THEN LowerOf[c] ELSE c

\* str.lower()
LowerOfStr(s) == SubSeq([k \in 1..Len(s) |-> LowerChar(s[k])], 1, Len(s))
Lower(s) == Call1(LowerOfStr, s)

\* str.startswith(pre)
StartsWith(s, pre) == Len(pre) <= Len(s) /\ SubSeq(s, 1, Len(pre)) = pre

\* str.endswith(suf)
EndsWith(s, suf) == Len(suf) <= Len(s) /\ SubSeq(s, Len(s) - Len(suf) + 1, Len(s)) = suf

\* s[k:] (1-based k)
Drop(s, k) == SubSeq(s, k, Len(s))

\* sub in s
Contains(s, sub) == \E k \in 1..(Len(s) - Len(sub) + 1) : SubSeq(s, k, k + Len(sub) - 1) = sub

\* the least and the greatest element of a set of positions, 0 when it is empty
Least(S) == IF S = {} THEN 0 ELSE CHOOSE k \in S : \A j \in S : k <= j
Greatest(S) == IF S = {} THEN 0 ELSE CHOOSE k \in S : \A j \in S : j <= k

\* s.find(c) for a single character, 1-based; 0 when absent
FindIn(s, c) == Least({k \in 1..Len(s) : s[k] = c})
FindChar(s, c) == Call2(FindIn, s, c)

\* s.rfind(c) for a single character, 1-based; 0 when absent
RFindIn(s, c) == Greatest({k \in 1..Len(s) : s[k] = c})
RFindChar(s, c) == Call2(RFindIn, s, c)

\* s.find(sub), 1-based; 0 when absent
FindSubIn(s, sub) ==
    Least({k \in 1..(Len(s) - Len(sub) + 1) : SubSeq(s, k, k + Len(sub) - 1) = sub})
FindSub(s, sub) == Call2(FindSubIn, s, sub)

\* s.split(c)[0]
SplitFirstAt(s, at) == IF at = 0 THEN s ELSE SubSeq(s, 1, at - 1)
SplitFirst(s, c) == Call2(SplitFirstAt, s, FindChar(s, c))

\* s.split(c)[-1]
SplitLast(s, c) == Call2(Drop, s, RFindChar(s, c) + 1)

\* s.strip(chars): drops every leading and trailing character that is in chars
RECURSIVE LStrip(_, _)
LStrip(s, chars) ==
    IF s # <<>> /\ Head(s) \in chars THEN Call2(LStrip, Tail(s), chars) ELSE s
RECURSIVE RStrip(_, _)
RStrip(s, chars) ==
    IF s # <<>> /\ s[Len(s)] \in chars
    THEN Call2(RStrip, SubSeq(s, 1, Len(s) - 1), chars) ELSE s
Strip(s, chars) == Call2(RStrip, Call2(LStrip, s, chars), chars)

\* s.replace(old, new): the leftmost occurrence, then the rest of the text
RECURSIVE Replace(_, _, _)
ReplaceAt(s, old, new, at) ==
    IF at = 0 THEN s
    ELSE SubSeq(s, 1, at - 1) \o new \o Call3(Replace, Drop(s, at + Len(old)), old, new)
Replace(s, old, new) == Call4(ReplaceAt, s, old, new, FindSub(s, old))

AMP_ENTITY == <<"&","a","m","p",";">>
AMP == <<"&">>

(***************************************************************************)
(* urllib.parse.unquote: every %XY with X, Y hexadecimal digits becomes    *)
(* the character with that code, in ONE left-to-right pass (the decoded    *)
(* text is not scanned again); any other % stays.  Codes 32..126 are       *)
(* modelled exactly; a code outside that range is rendered as NonPrintable *)
(* (a lone byte above 127 decodes to U+FFFD; the inputs of the model       *)
(* decode to no control character).                                        *)
(***************************************************************************)
HexChars == <<"0","1","2","3","4","5","6","7","8","9","a","b","c","d","e","f">>
HexSet == {HexChars[k] : k \in 1..16}
HexOf == [c \in HexSet |-> (CHOOSE k \in 1..16 : HexChars[k] = c) - 1]
IsHex(c) == LowerChar(c) \in HexSet
HexVal(c) == HexOf[LowerChar(c)]
NonPrintable == "<U+FFFD>"
Chr(n) == IF n >= 32 /\ n <= 126 THEN AsciiChars[n - 31] ELSE NonPrintable

\* the position of the leftmost escape %XY of s, 0 when it has none
FirstEscapeIn(s) ==
    Least({k \in 1..(Len(s) - 2) : s[k] = "%" /\ IsHex(s[k + 1]) /\ IsHex(s[k + 2])})
FirstEscape(s) == Call1(FirstEscapeIn, s)

RECURSIVE unquote(_)
UnquoteAt(s, at) ==
    IF at = 0 THEN s
    ELSE SubSeq(s, 1, at - 1) \o <<Chr(16 * HexVal(s[at + 1]) + HexVal(s[at + 2]))>>
         \o Call1(unquote, Drop(s, at + 3))
unquote(s) == Call2(UnquoteAt, s, FirstEscape(s))


\* The result of code that may raise: what it produced, and whether it raised.
Done(out) == [out |-> out, raised |-> FALSE]
Raised(out) == [out |-> out, raised |-> TRUE]
(***************************************************************************)
(* urllib.parse.urljoin(base, url), as extract_media_from_html uses it.    *)
(* ParseUrl is urlparse: scheme (lower-cased, only when the text before    *)
(* the first ':' is a letter followed by scheme characters), netloc (after *)
(* a leading "//", up to the first of / ? #), fragment (after the first    *)
(* #), query (after the first ?), path, and the parameters cut from the    *)
(* last path segment at its first ';'.  A netloc with an unmatched bracket  *)
(* or a bracketed host that is no IPv6 or IPvFuture address raises         *)
(* ValueError.  The stripping of blanks and control characters is outside  *)
(* the model: the inputs hold none.                                        *)
(***************************************************************************)
SchemeChars == LowerSet \cup UpperSet \cup DigitSet \cup {"+", "-", "."}
IsAlpha(c) == c \in UpperSet \/ c \in LowerSet

\* uses_relative, uses_netloc and uses_params, restricted to the schemes the
\* inputs use
UsesRelative == {<<>>, <<"h","t","t","p">>, <<"h","t","t","p","s">>, <<"f","t","p">>}
UsesNetloc == UsesRelative
UsesParams == UsesRelative

\* position from k on of the first character of s that is in chars, Len(s)+1 when none
FirstOfIn(s, chars, k) ==
    IF \E j \in k..Len(s) : s[j] \in chars
    THEN Least({j \in k..Len(s) : s[j] \in chars})
    ELSE Len(s) + 1
FirstOf(s, chars, k) == Call3(FirstOfIn, s, chars, k)

\* the position of the ':' that ends a scheme, 0 when u starts with no scheme
SchemeEndAt(u, colon) ==
    IF colon > 1 /\ IsAlpha(u[1]) /\ \A k \in 1..(colon - 1) : u[k] \in SchemeChars
    THEN colon ELSE 0
SchemeEnd(u) == Call2(SchemeEndAt, u, FindChar(u, ":"))

Parts(scheme, netloc, path, params, query, fragment) ==
    [scheme |-> scheme, netloc |-> netloc, path |-> path, params |-> params,
     query |-> query, fragment |-> fragment]

\* _splitparams: the path is cut at the first ';' of its last segment
SplitParamsAt(scheme, netloc, path, query, fragment, semi) ==
    IF semi > Len(path) THEN Parts(scheme, netloc, path, <<>>, query, fragment)
    ELSE Parts(scheme, netloc, SubSeq(path, 1, semi - 1), Drop(path, semi + 1), query,
               fragment)
SplitParams(scheme, netloc, path, query, fragment) ==
    IF scheme \in UsesParams
    THEN Call1(LAMBDA semi : SplitParamsAt(scheme, netloc, path, query, fragment, semi),
               FirstOf(path, {";"}, IF RFindChar(path, "/") = 0 THEN 1
                                    ELSE RFindChar(path, "/")))
    ELSE Parts(scheme, netloc, path, <<>>, query, fragment)

\* url.split('?', 1) of what is left once scheme, netloc and fragment are cut
ParseQuery(scheme, netloc, fragment, rest, q) ==
    IF q = 0 THEN SplitParams(scheme, netloc, rest, <<>>, fragment)
    ELSE SplitParams(scheme, netloc, SubSeq(rest, 1, q - 1), Drop(rest, q + 1), fragment)

\* url.split('#', 1) of what is left once scheme and netloc are cut
ParseFragmentAt(scheme, netloc, rest, h) ==
    IF h = 0 THEN Call2(LAMBDA r, q : ParseQuery(scheme, netloc, <<>>, r, q),
                        rest, FindChar(rest, "?"))
    ELSE Call2(LAMBDA r, q : ParseQuery(scheme, netloc, Drop(rest, h + 1), r, q),
               SubSeq(rest, 1, h - 1), FindChar(SubSeq(rest, 1, h - 1), "?"))
ParseFragment(scheme, netloc, rest) ==
    Call2(LAMBDA r, h : ParseFragmentAt(scheme, netloc, r, h), rest, FindChar(rest, "#"))

\* s.split(c): the pieces between the occurrences of c
CutsOf(s, c) == {0, Len(s) + 1} \cup {k \in 1..Len(s) : s[k] = c}
NthCut(cuts, n) == CHOOSE k \in cuts : Cardinality({j \in cuts : j < k}) = n - 1
SplitAtCuts(s, cuts) ==
    [n \in 1..(Cardinality(cuts) - 1) |->
        SubSeq(s, NthCut(cuts, n) + 1, NthCut(cuts, n + 1) - 1)]
SplitChar(s, c) == Call2(SplitAtCuts, s, CutsOf(s, c))

\* ipaddress.IPv4Address: four decimal octets, no leading zero, at most 255
IsOctet(o) ==
    /\ o # <<>> /\ Len(o) <= 3
    /\ \A k \in 1..Len(o) : o[k] \in DigitSet
    /\ (Len(o) > 1 => o[1] # "0")
    /\ (Len(o) = 3 => DigitOf[o[1]] * 100 + DigitOf[o[2]] * 10 + DigitOf[o[3]] <= 255)
IsIPv4Octets(octets) == Len(octets) = 4 /\ \A k \in 1..4 : IsOctet(octets[k])
IsIPv4(s) == Call1(IsIPv4Octets, SplitChar(s, "."))

\* ipaddress._BaseV6._parse_hextet: one to four hexadecimal digits
IsHextet(h) == h # <<>> /\ Len(h) <= 4 /\ \A k \in 1..Len(h) : IsHex(h[k])

\* ipaddress._BaseV6._ip_int_from_string once an IPv4 suffix was replaced by
\* two hextets: at most one "::", a leading or trailing ':' only as part of
\* it, eight hextets without it and at most seven with it
V6Skipped(parts, skip, hi, lo) ==
    /\ (parts[1] = <<>> => hi = 0)
    /\ (parts[Len(parts)] = <<>> => lo = 0)
    /\ hi + lo <= 7
    /\ \A n \in 1..hi : IsHextet(parts[n])
    /\ \A n \in (Len(parts) - lo + 1)..Len(parts) : IsHextet(parts[n])
V6Hextets(parts, inner) ==
    /\ Len(parts) <= 9
    /\ Cardinality(inner) <= 1
    /\ IF inner # {}
       THEN Call4(V6Skipped, parts, (CHOOSE n \in inner : TRUE) - 1,
                  (CHOOSE n \in inner : TRUE) - 1 - (IF parts[1] = <<>> THEN 1 ELSE 0),
                  Len(parts) - (CHOOSE n \in inner : TRUE)
                      - (IF parts[Len(parts)] = <<>> THEN 1 ELSE 0))
       ELSE Len(parts) = 8 /\ \A n \in 1..8 : IsHextet(parts[n])
V6Parts(parts) ==
    /\ Len(parts) >= 3
    /\ IF "." \in {parts[Len(parts)][k] : k \in 1..Len(parts[Len(parts)])}
       THEN /\ IsIPv4(parts[Len(parts)])
            /\ Call1(LAMBDA ps : V6Hextets(ps, {n \in 2..(Len(ps) - 1) : ps[n] = <<>>}),
                     SubSeq(parts, 1, Len(parts) - 1) \o << <<"0">>, <<"0">> >>)
       ELSE V6Hextets(parts, {n \in 2..(Len(parts) - 1) : parts[n] = <<>>})

\* ipaddress.IPv6Address: no '/', a scope id after '%' that is not empty and
\* holds no '%', then the hextets
IsIPv6At(s, pct) ==
    IF pct = 0 THEN Call1(V6Parts, SplitChar(s, ":"))
    ELSE /\ pct < Len(s)
         /\ \A k \in (pct + 1)..Len(s) : s[k] # "%"
         /\ Call1(V6Parts, SplitChar(SubSeq(s, 1, pct - 1), ":"))
IsIPv6(s) == (\A k \in 1..Len(s) : s[k] # "/") /\ Call2(IsIPv6At, s, FindChar(s, "%"))

\* re.match(r"\Av[a-fA-F0-9]+\..+\Z", hostname)
IsIPvFuture(h) ==
    \E dot \in 3..(Len(h) - 1) :
        /\ h[1] = "v" /\ h[dot] = "."
        /\ \A k \in 2..(dot - 1) : IsHex(h[k])

\* _check_bracketed_host: TRUE when it raises ValueError.  ip_address accepts
\* an IPv4 or an IPv6 address and the IPv4 one is then refused
BracketedHostRaises(h) ==
    IF h # <<>> /\ h[1] = "v" THEN ~IsIPvFuture(h) ELSE ~IsIPv6(h)

\* netloc.partition('[')[2].partition(']')[0]
BracketedHost(netloc) ==
    Call1(LAMBDA after : SplitFirst(after, "]"), Drop(netloc, FindChar(netloc, "[") + 1))

\* urlsplit: TRUE when the netloc makes it raise ValueError
NetlocRaises(netloc) ==
    IF FindChar(netloc, "[") = 0 /\ FindChar(netloc, "]") = 0 THEN FALSE
    ELSE IF FindChar(netloc, "[") = 0 \/ FindChar(netloc, "]") = 0 THEN TRUE
    ELSE BracketedHostRaises(BracketedHost(netloc))

\* what urlparse gives when urlsplit raises ValueError
ValueError == [raised |-> "ValueError"]

\* _splitnetloc of what is left once the scheme is cut, and the checks of the
\* netloc
ParseNetlocOf(scheme, netloc, rest) ==
    IF NetlocRaises(netloc) THEN ValueError
    ELSE Call3(ParseFragment, scheme, netloc, rest)
ParseNetlocAt(scheme, rest, netEnd) ==
    Call3(ParseNetlocOf, scheme, SubSeq(rest, 3, netEnd - 1), Drop(rest, netEnd))
ParseNetloc(scheme, rest) ==
    IF StartsWith(rest, <<"/","/">>)
    THEN Call3(ParseNetlocAt, scheme, rest, FirstOf(rest, {"/", "?", "#"}, 3))
    ELSE Call3(ParseFragment, scheme, <<>>, rest)

ParseUrlAt(u, default, colon) ==
    IF colon = 0 THEN Call2(ParseNetloc, default, u)
    ELSE Call2(ParseNetloc, Lower(SubSeq(u, 1, colon - 1)), Drop(u, colon + 1))
ParseUrl(u, default) == Call3(ParseUrlAt, u, default, SchemeEnd(u))

\* urlunparse: the parameters go back only when not empty
WithParams(p) == IF p.params # <<>> THEN p.path \o <<";">> \o p.params ELSE p.path
UnparseNet(p, url) ==
    IF p.netloc # <<>> \/ (p.scheme # <<>> /\ p.scheme \in UsesNetloc
                           /\ ~StartsWith(url, <<"/","/">>))
    THEN <<"/","/">> \o p.netloc
         \o (IF url # <<>> /\ Head(url) # "/" THEN <<"/">> ELSE <<>>) \o url
    ELSE url
UnparseUrlOf(p) ==
    (IF p.scheme # <<>> THEN p.scheme \o <<":">> ELSE <<>>)
    \o Call2(UnparseNet, p, WithParams(p))
    \o (IF p.query # <<>> THEN <<"?">> \o p.query ELSE <<>>)
    \o (IF p.fragment # <<>> THEN <<"#">> \o p.fragment ELSE <<>>)
UnparseUrl(p) == Call1(UnparseUrlOf, p)

\* s.split("/") as a sequence of segments
RECURSIVE SplitSlash(_)
SplitSlashAt(s, at) ==
    IF at = 0 THEN <<s>>
    ELSE <<SubSeq(s, 1, at - 1)>> \o Call1(SplitSlash, Drop(s, at + 1))
SplitSlash(s) == Call2(SplitSlashAt, s, FindChar(s, "/"))

\* "/".join(segments)
RECURSIVE JoinSlash(_)
JoinSlash(segs) ==
    IF segs = <<>> THEN <<>>
    ELSE IF Len(segs) = 1 THEN segs[1]
    ELSE segs[1] \o <<"/">> \o Call1(JoinSlash, Tail(segs))

\* segments[1:-1] = filter(None, segments[1:-1])
DropEmptyInner(segs) ==
    IF Len(segs) <= 2 THEN segs
    ELSE <<segs[1]>> \o SelectSeq(SubSeq(segs, 2, Len(segs) - 1), LAMBDA x : x # <<>>)
         \o <<segs[Len(segs)]>>

DOT == <<".">>
DOTDOT == <<".",".">>

\* the resolved_path loop: ".." pops, "." is skipped
RECURSIVE ResolveDots(_, _)
ResolveDots(segs, acc) ==
    IF segs = <<>> THEN acc
    ELSE IF Head(segs) = DOTDOT
         THEN Call2(ResolveDots, Tail(segs),
                    IF acc = <<>> THEN acc ELSE SubSeq(acc, 1, Len(acc) - 1))
    ELSE IF Head(segs) = DOT THEN Call2(ResolveDots, Tail(segs), acc)
    ELSE Call2(ResolveDots, Tail(segs), Append(acc, Head(segs)))

\* del base_parts[-1] unless the base path ends with a slash
BaseParts(bp0) == IF bp0[Len(bp0)] # <<>> THEN SubSeq(bp0, 1, Len(bp0) - 1) ELSE bp0

\* the segments to resolve
Segments(bpath, path) ==
    IF path # <<>> /\ Head(path) = "/" THEN SplitSlash(path)
    ELSE Call1(DropEmptyInner, Call1(BaseParts, SplitSlash(bpath)) \o SplitSlash(path))

\* '/'.join(resolved_path) or '/'
ResolvedPath(segments) ==
    Call1(LAMBDA joined : IF joined = <<>> THEN <<"/">> ELSE joined,
          JoinSlash(IF segments[Len(segments)] \in {DOT, DOTDOT}
                    THEN Append(ResolveDots(segments, <<>>), <<>>)
                    ELSE ResolveDots(segments, <<>>)))

JoinParsed(url, b, u) ==
    IF u.scheme # b.scheme \/ u.scheme \notin UsesRelative THEN url
    ELSE IF u.scheme \in UsesNetloc /\ u.netloc # <<>> THEN UnparseUrl(u)
    ELSE IF u.path = <<>> /\ u.params = <<>>
    THEN UnparseUrl(Parts(u.scheme, IF u.scheme \in UsesNetloc THEN b.netloc ELSE u.netloc,
                          b.path, b.params, IF u.query = <<>> THEN b.query ELSE u.query,
                          u.fragment))
    ELSE UnparseUrl(Parts(u.scheme, IF u.scheme \in UsesNetloc THEN b.netloc ELSE u.netloc,
                          Call1(ResolvedPath, Segments(b.path, u.path)),
                          u.params, u.query, u.fragment))

\* urlparse(base) and then urlparse(url, bscheme): a ValueError of either
\* leaves urljoin
JoinIfParsed(url, b, u) == IF u = ValueError THEN Raised(<<>>) ELSE Done(JoinParsed(url, b, u))
JoinWithBase(url, b) ==
    IF b = ValueError THEN Raised(<<>>)
    ELSE Call3(JoinIfParsed, url, b, ParseUrl(url, b.scheme))

urljoin(base, url) ==
    IF base = <<>> THEN Done(url)
    ELSE IF url = <<>> THEN Done(base)
    ELSE Call2(JoinWithBase, url, ParseUrl(base, <<>>))

(***************************************************************************)
(* Optional values: an attribute or key that is absent is <<>>, one that   *)
(* is present with value v is <<v>>.                                       *)
(***************************************************************************)
Absent == <<>>
Some(v) == <<v>>
Has(o) == o # <<>>
Val(o) == o[1]

(***************************************************************************)
(* int(text) of Python: blanks around, an optional sign, then digits       *)
(* (single underscores between digits allowed).  IsIntText tells whether   *)
(* int() returns, IntOf what it returns; otherwise it raises ValueError.   *)
(***************************************************************************)
IsDigit(c) == c \in DigitSet

Unsigned(t) == IF t # <<>> /\ Head(t) \in {"+", "-"} THEN Tail(t) ELSE t
IntBody(s) == Call1(Unsigned, Strip(s, {" "}))

IsDigits(d) ==
    /\ d # <<>>
    /\ IsDigit(d[1]) /\ IsDigit(d[Len(d)])
    /\ \A k \in 1..Len(d) : IsDigit(d[k]) \/ (d[k] = "_" /\ d[k - 1] # "_")
IsIntText(s) == Call1(IsDigits, IntBody(s))

RECURSIVE DigitsValue(_, _, _)
DigitsValue(d, k, acc) ==
    IF k > Len(d) THEN acc
    ELSE IF d[k] = "_" THEN Call3(DigitsValue, d, k + 1, acc)
    ELSE Call3(DigitsValue, d, k + 1, 10 * acc + DigitOf[d[k]])

Signed(t, v) == IF t # <<>> /\ Head(t) = "-" THEN 0 - v ELSE v
IntOf(s) == Call2(Signed, Strip(s, {" "}), Call3(DigitsValue, IntBody(s), 1, 0))

(***************************************************************************)
(* practice.py: extract_media_from_html.  The parsed page is the sequence  *)
(* of its elements in document order; an element is its tag and the        *)
(* attributes the code reads, each optional.                               *)
(***************************************************************************)
MIN_DIMENSION == 50

JunkWords ==
    { <<"t","h","u","m","b","n","a","i","l">>, <<"i","c","o","n">>,
      <<"a","v","a","t","a","r">>, <<"e","m","o","j","i">>,
      <<"l","o","a","d","i","n","g">> }

HTTP_PREFIX == <<"h","t","t","p",":","/","/">>
HTTPS_PREFIX == <<"h","t","t","p","s",":","/","/">>
HTTPS_COLON == <<"h","t","t","p","s",":">>
SLASH_SLASH == <<"/","/">>

\* a or b or c over optional attribute values: the first that is present and non-empty
FirstOfGood(good) == IF good = <<>> THEN Absent ELSE good[1]
FirstTruthy(opts) == Call1(FirstOfGood, SelectSeq(opts, LAMBDA o : Has(o) /\ Val(o) # <<>>))

\* img.get('src') or img.get('data-src') or img.get('data-original')
ImgSource(el) == FirstTruthy(<<el.src, el.data_src, el.data_original>>)

\* video.get('src') or video.get('data-src')
VideoSource(el) == FirstTruthy(<<el.src, el.data_src>>)

\* img.get(name, '').strip('px') or '0'
OrZero(t) == IF t = <<>> THEN <<"0">> ELSE t
Dimension(attr) == Call1(OrZero, Strip(IF Has(attr) THEN Val(attr) ELSE <<>>, {"p", "x"}))

\* the size test with `and` in place of the `or` of practice.py 121
SizeTestBothSmall(width, height) ==
    IF ~IsIntText(width) THEN FALSE
    ELSE IF IntOf(width) >= MIN_DIMENSION THEN FALSE
    ELSE IF ~IsIntText(height) THEN FALSE
    ELSE IntOf(height) < MIN_DIMENSION

\* practice.py 120-124: TRUE when the size test executes `continue`.  int(width)
\* is evaluated first; int(height) only when int(width) >= 50; a ValueError from
\* either leaves the image in.
SizeTest(width, height) ==
    IF ~IsIntText(width) THEN FALSE
    ELSE IF IntOf(width) < MIN_DIMENSION THEN TRUE
    ELSE IF ~IsIntText(height) THEN FALSE
    ELSE IntOf(height) < MIN_DIMENSION

\* practice.py 118-124
SizeRejects(el) == Call2(SizeTest, Dimension(el.width), Dimension(el.height))

\* practice.py 126
ContainsJunk(low) == \E w \in JunkWords : Contains(low, w)
IsJunk(src) == Call1(ContainsJunk, Lower(src))

\* practice.py 127-130 and 138-141: scheme prefix / base resolution; urljoin
\* may raise ValueError
Absolutize(src, base_url) ==
    IF StartsWith(src, SLASH_SLASH) THEN Done(HTTPS_COLON \o src)
    ELSE IF ~(StartsWith(src, HTTP_PREFIX) \/ StartsWith(src, HTTPS_PREFIX))
         THEN urljoin(base_url, src)
    ELSE Done(src)

\* practice.py 131: src.split('?')[0] of a source that was resolved
CutQuery(resolved) ==
    IF resolved.raised THEN resolved ELSE Done(SplitFirst(resolved.out, "?"))

\* practice.py 127-131: the cleaning of an image source
NormalizeImageSrc(src, base_url) == Call1(CutQuery, Call2(Absolutize, src, base_url))

Pair(kind, url) == [kind |-> kind, url |-> url]

\* media_urls.append((kind, src)), unless the cleaning of src raised
Appended(kind, cleaned) ==
    IF cleaned.raised THEN Raised(<<>>) ELSE Done(<<Pair(kind, cleaned.out)>>)

\* what a loop has appended followed by what its later iterations append; an
\* exception leaves extract_media_from_html and nothing is returned
Then(out, later) == IF later.raised THEN Raised(<<>>) ELSE Done(out \o later.out)

\* practice.py 116-132 for one img element, given its source: what it appends
ImageOf(el, src, base_url) ==
    IF ~Has(src) THEN Done(<<>>)
    ELSE IF SizeRejects(el) THEN Done(<<>>)
    ELSE IF IsJunk(Val(src)) THEN Done(<<>>)
    ELSE Call2(Appended, "image", NormalizeImageSrc(Val(src), base_url))
ImageCandidates(el, base_url) == Call3(ImageOf, el, ImgSource(el), base_url)

\* practice.py 136-142 for one video or source element, given its source
VideoOf(src, base_url) ==
    IF ~Has(src) THEN Done(<<>>)
    ELSE Call2(Appended, "video", Call2(Absolutize, Val(src), base_url))
VideoCandidates(el, base_url) == Call2(VideoOf, VideoSource(el), base_url)

\* practice.py 115: for img in soup.find_all('img')
RECURSIVE FlatMapImages(_, _, _)
ImagesAfter(soup, base_url, k, first) ==
    IF first.raised THEN first
    ELSE Call2(Then, first.out, FlatMapImages(soup, base_url, k + 1))
FlatMapImages(soup, base_url, k) ==
    IF k > Len(soup) THEN Done(<<>>)
    ELSE Call4(ImagesAfter, soup, base_url, k,
               IF soup[k].tag = "img" THEN ImageCandidates(soup[k], base_url)
               ELSE Done(<<>>))

\* practice.py 135: for video in soup.find_all(['video', 'source'])
RECURSIVE FlatMapVideos(_, _, _)
VideosAfter(soup, base_url, k, first) ==
    IF first.raised THEN first
    ELSE Call2(Then, first.out, FlatMapVideos(soup, base_url, k + 1))
FlatMapVideos(soup, base_url, k) ==
    IF k > Len(soup) THEN Done(<<>>)
    ELSE Call4(VideosAfter, soup, base_url, k,
               IF soup[k].tag \in {"video", "source"}
               THEN VideoCandidates(soup[k], base_url) ELSE Done(<<>>))

\* every img first, then every video/source, each in document order
VideosAfterImages(soup, base_url, images) ==
    IF images.raised THEN images
    ELSE Call2(Then, images.out, FlatMapVideos(soup, base_url, 1))
extract_media_from_html(soup, base_url) ==
    Call3(VideosAfterImages, soup, base_url, Call3(FlatMapImages, soup, base_url, 1))

(***************************************************************************)
(* A Reddit submission, as the code probes it.  Every attribute the code   *)
(* reads has a tag: "absent" (hasattr is False, reading it raises          *)
(* AttributeError), "none" (present but None, so subscripting or calling   *)
(* a method on it raises) or a value.                                      *)
(*   id              the post id (always present)                          *)
(*   gallery_data    [tag, items]   items: the media_id of each item       *)
(*   media_metadata  optional function media_id -> [status, e, u]          *)
(*                   e: optional type, u: optional source url s.u          *)
(*   url             [tag, s]                                              *)
(*   is_video        "absent", "true" or "false"                           *)
(*   media           [tag, fallback]  fallback: optional                   *)
(*                   media['reddit_video']['fallback_url']                 *)
(*   preview         [tag, images]  images: optional list of optional      *)
(*                   image['source']['url']                                *)
(***************************************************************************)
EXT_JPG == <<".","j","p","g">>
EXT_JPEG == <<".","j","p","e","g">>
EXT_PNG == <<".","p","n","g">>
EXT_GIF == <<".","g","i","f">>
EXT_WEBP == <<".","w","e","b","p">>
EXT_MP4 == <<".","m","p","4">>

\* ['.jpg', '.jpeg', '.png', '.gif', '.webp']
ImageExts == {EXT_JPG, EXT_JPEG, EXT_PNG, EXT_GIF, EXT_WEBP}

\* any(url.lower().endswith(ext) for ext in exts)
EndsWithAny(low, exts) == \E ext \in exts : EndsWith(low, ext)
\* the test of main.py 64 without .lower()
HasExtCaseSensitive(url, exts) == Call2(EndsWithAny, url, exts)
HasExt(url, exts) == Call2(EndsWithAny, Lower(url), exts)

GalleryName(id, media_id) ==
    <<"g","a","l","l","e","r","y","_">> \o id \o <<"_">> \o media_id \o EXT_JPG
ImageName(id, url) == id \o <<"_","i","m","a","g","e",".">> \o SplitLast(url, ".")
VideoName(id) == id \o <<"_","v","i","d","e","o",".","m","p","4">>
PreviewName(id) == id \o <<"_","p","r","e","v","i","e","w",".","j","p","g">>

Media(kind, url, filename) == [kind |-> kind, url |-> url, filename |-> filename]


\* one media_metadata entry without the status test of main.py 56
GalleryEntryAnyStatus(id, media_id, metadata) ==
    IF ~Has(metadata.e) THEN Raised(<<>>)
    ELSE IF Val(metadata.e) # "Image" THEN Done(<<>>)
    ELSE IF ~Has(metadata.u) THEN Raised(<<>>)
    ELSE Done(<<Media("image", Val(metadata.u), GalleryName(id, media_id))>>)

\* main.py 56-59: one media_metadata entry
GalleryEntry(id, media_id, metadata) ==
    IF metadata.status # "valid" THEN Done(<<>>)
    ELSE IF ~Has(metadata.e) THEN Raised(<<>>)
    ELSE IF Val(metadata.e) # "Image" THEN Done(<<>>)
    ELSE IF ~Has(metadata.u) THEN Raised(<<>>)
    ELSE Done(<<Media("image", Val(metadata.u), GalleryName(id, media_id))>>)

\* main.py 54-59: one gallery item; a media_id that is no key raises KeyError
GalleryItem(p, media_id) ==
    IF ~Has(p.media_metadata) \/ media_id \notin DOMAIN Val(p.media_metadata)
    THEN Raised(<<>>)
    ELSE Call3(GalleryEntry, p.id, media_id, Val(p.media_metadata)[media_id])

\* main.py 53-59: the loop over gallery_data['items'], from item k on
RECURSIVE GalleryWalk(_, _, _)
GalleryNext(p, k, acc, step) ==
    IF step.raised THEN Raised(acc \o step.out)
    ELSE Call3(GalleryWalk, p, k + 1, acc \o step.out)
GalleryWalk(p, k, acc) ==
    IF k > Len(p.gallery_data.items) THEN Done(acc)
    ELSE Call4(GalleryNext, p, k, acc, GalleryItem(p, p.gallery_data.items[k]))

\* main.py 51-66: the gallery branch, else the direct-image branch
GalleryOrDirect(p) ==
    IF p.gallery_data.tag # "absent"
    THEN IF p.gallery_data.tag = "none" THEN Raised(<<>>)
         ELSE Call3(GalleryWalk, p, 1, <<>>)
    ELSE IF p.url.tag # "absent"
    THEN IF p.url.tag = "none" THEN Raised(<<>>)
         ELSE IF HasExt(p.url.s, ImageExts)
              THEN Done(<<Media("image", p.url.s, ImageName(p.id, p.url.s))>>)
              ELSE Done(<<>>)
    ELSE Done(<<>>)

\* main.py 75-79: the preview lookup; KeyError and IndexError are swallowed,
\* a preview that is None raises TypeError, which is not.
PreviewLookup(p) ==
    IF p.preview.tag = "none" THEN Raised(<<>>)
    ELSE IF ~Has(p.preview.images) THEN Done(<<>>)
    ELSE IF Val(p.preview.images) = <<>> THEN Done(<<>>)
    ELSE IF ~Has(Val(p.preview.images)[1]) THEN Done(<<>>)
    ELSE Done(<<Media("image", Val(Val(p.preview.images)[1]), PreviewName(p.id))>>)

\* the two branches with the preview lookup under `if` in place of `elif`
VideoThenPreview(p) ==
    IF p.is_video = "absent" THEN Raised(<<>>)
    ELSE IF p.is_video = "true" /\ p.media.tag # "absent"
    THEN IF p.media.tag = "none" \/ ~Has(p.media.fallback) THEN Raised(<<>>)
         ELSE IF p.preview.tag # "absent"
         THEN [ out |-> <<Media("video", Val(p.media.fallback), VideoName(p.id))>>
                            \o PreviewLookup(p).out,
                raised |-> PreviewLookup(p).raised ]
         ELSE Done(<<Media("video", Val(p.media.fallback), VideoName(p.id))>>)
    ELSE IF p.preview.tag # "absent" THEN PreviewLookup(p)
    ELSE Done(<<>>)

\* main.py 68-79: the hosted-video branch, else the preview branch
VideoOrPreview(p) ==
    IF p.is_video = "absent" THEN Raised(<<>>)
    ELSE IF p.is_video = "true" /\ p.media.tag # "absent"
    THEN IF p.media.tag = "none" \/ ~Has(p.media.fallback) THEN Raised(<<>>)
         ELSE Done(<<Media("video", Val(p.media.fallback), VideoName(p.id))>>)
    ELSE IF p.preview.tag # "absent" THEN PreviewLookup(p)
    ELSE Done(<<>>)

\* main.py 50-82: the try block; an exception ends it, keeping what was appended
ThenVideoOrPreview(first, second) ==
    [out |-> first.out \o second.out, raised |-> second.raised]
AfterGalleryOrDirect(p, first) ==
    IF first.raised THEN first
    ELSE Call2(ThenVideoOrPreview, first, VideoOrPreview(p))
SubmissionScan(p) == Call2(AfterGalleryOrDirect, p, GalleryOrDirect(p))

\* main.py 47-84: the list get_media_from_submission returns
get_media_from_submission(p) == SubmissionScan(p).out

\* main.py 81-82: whether it reported a warning for the post
SubmissionWarns(p) == SubmissionScan(p).raised

(***************************************************************************)
(* main.py: get_reddit_search_media                                        *)
(***************************************************************************)
\* ['.jpg', '.jpeg', '.png', '.gif', '.webp', '.mp4']
FilterExts == ImageExts \cup {EXT_MP4}

\* main.py 106-110: the media_only test of one post, evaluated left to right
\* with short-circuit: "keep", "skip" (continue), or "raise" when reading a
\* field raises.  It runs outside get_media_from_submission's try block.
MediaFilter(p, only) ==
    IF ~only THEN "keep"
    ELSE IF p.preview.tag # "absent" THEN "keep"
    ELSE IF p.is_video = "absent" THEN "raise"
    ELSE IF p.is_video = "true" THEN "keep"
    ELSE IF p.gallery_data.tag # "absent" THEN "keep"
    ELSE IF p.url.tag = "absent" THEN "skip"
    ELSE IF p.url.tag = "none" THEN "raise"
    ELSE IF HasExt(p.url.s, FilterExts) THEN "keep"
    ELSE "skip"

\* the cleaning of main.py 119 without unquote
CleanUrlNoUnquote(url) == Replace(url, AMP_ENTITY, AMP)

\* main.py 119: unquote(url).replace('&amp;', '&')
CleanUrl(url) == Replace(unquote(url), AMP_ENTITY, AMP)

\* main.py 116-122: clean every url, keep the first item of each cleaned url
RECURSIVE CleanWalk(_, _, _, _)
CleanStep(media_urls, k, seen, cleaned_urls, cleaned_url) ==
    IF cleaned_url \notin seen
    THEN Call4(CleanWalk, media_urls, k + 1, seen \cup {cleaned_url},
               Append(cleaned_urls,
                      Media(media_urls[k].kind, cleaned_url, media_urls[k].filename)))
    ELSE Call4(CleanWalk, media_urls, k + 1, seen, cleaned_urls)
CleanWalk(media_urls, k, seen, cleaned_urls) ==
    IF k > Len(media_urls) THEN cleaned_urls
    ELSE Call1(LAMBDA cleaned_url : CleanStep(media_urls, k, seen, cleaned_urls, cleaned_url),
               CleanUrl(media_urls[k].url))

\* main.py 116-122 with seen holding (kind, url) in place of the url
KeptByKind(cleaned) ==
    {k \in 1..Len(cleaned) :
        \A j \in 1..(k - 1) :
            cleaned[j].url # cleaned[k].url \/ cleaned[j].kind # cleaned[k].kind}
PickKept(cleaned, kept) ==
    [n \in 1..Cardinality(kept) |->
        cleaned[CHOOSE k \in kept : Cardinality({j \in kept : j < k}) = n - 1]]
DedupByKind(cleaned) == Call2(PickKept, cleaned, KeptByKind(cleaned))
CleanDedupByKind(media_urls) ==
    Call1(DedupByKind,
          [k \in 1..Len(media_urls) |->
              Media(media_urls[k].kind, CleanUrl(media_urls[k].url), media_urls[k].filename)])

CleanDedup(media_urls) == Call4(CleanWalk, media_urls, 1, {}, <<>>)

\* main.py 100: `with st.progress(0) as progress_bar` binds what the
\* __enter__ of streamlit's DeltaGenerator returns, which is None
progress_bar == Absent

\* main.py 101-113: the loop over the posts from post k on.  Each iteration
\* starts with progress_bar.progress(...), an AttributeError on None
RECURSIVE SearchLoop(_, _, _, _)
SearchStep(ps, only, k, media_urls, verdict) ==
    IF ~Has(progress_bar) THEN Raised(media_urls)
    ELSE IF verdict = "raise" THEN Raised(media_urls)
    ELSE IF verdict = "skip" THEN Call4(SearchLoop, ps, only, k + 1, media_urls)
    ELSE Call4(SearchLoop, ps, only, k + 1, media_urls \o get_media_from_submission(ps[k]))
SearchLoop(ps, only, k, media_urls) ==
    IF k > Len(ps) THEN Done(media_urls)
    ELSE Call1(LAMBDA verdict : SearchStep(ps, only, k, media_urls, verdict),
               MediaFilter(ps[k], only))

\* main.py 86-128: what get_reddit_search_media returns
SearchResult(scanned) == IF scanned.raised THEN <<>> ELSE CleanDedup(scanned.out)
get_reddit_search_media(ps, only) == Call1(SearchResult, Call4(SearchLoop, ps, only, 1, <<>>))

(***************************************************************************)
(* practice.py: get_reddit_media (the definition in force, lines 264-323), *)
(* the duplicate removal of main (354-355), and the file name of an item   *)
(***************************************************************************)
\* practice.py 276-307 appends the same items as main.py 50-82, without a name
RECURSIVE PairsFrom(_, _)
PairsFrom(media, k) ==
    IF k > Len(media) THEN <<>>
    ELSE <<Pair(media[k].kind, media[k].url)>> \o Call2(PairsFrom, media, k + 1)
PairsOf(media) == Call2(PairsFrom, media, 1)

InSeq(x, sq) == \E k \in 1..Len(sq) : sq[k] = x

\* practice.py 310-314
RECURSIVE CleanPairs(_, _, _)
CleanPairStep(media_urls, k, cleaned_urls, cleaned_url) ==
    IF ~InSeq(Pair("image", cleaned_url), cleaned_urls)
    THEN Call3(CleanPairs, media_urls, k + 1,
               Append(cleaned_urls, Pair(media_urls[k].kind, cleaned_url)))
    ELSE Call3(CleanPairs, media_urls, k + 1, cleaned_urls)
CleanPairs(media_urls, k, cleaned_urls) ==
    IF k > Len(media_urls) THEN cleaned_urls
    ELSE Call4(CleanPairStep, media_urls, k, cleaned_urls,
               Replace(media_urls[k].url, AMP_ENTITY, AMP))

\* practice.py 264-323, for a submission that was fetched
get_reddit_media(p) == Call3(CleanPairs, PairsOf(SubmissionScan(p).out), 1, <<>>)

\* practice.py 354-355: [x for x in media_urls if not (x[1] in seen or seen.add(x[1]))]
RECURSIVE RemoveWalk(_, _, _)
RemoveWalk(media_urls, k, seen) ==
    IF k > Len(media_urls) THEN <<>>
    ELSE IF media_urls[k].url \in seen THEN Call3(RemoveWalk, media_urls, k + 1, seen)
    ELSE <<media_urls[k]>>
         \o Call3(RemoveWalk, media_urls, k + 1, seen \cup {media_urls[k].url})

RemoveDuplicates(media_urls) == Call3(RemoveWalk, media_urls, 1, {})

\* os.path.splitext(url)[1]: from the last dot of the last path component,
\* unless that component is all leading dots
SplitExtAt(path, sep, dot) ==
    IF dot > sep /\ \E k \in (sep + 1)..(dot - 1) : path[k] # "."
    THEN Drop(path, dot) ELSE <<>>
SplitExt(path) == Call3(SplitExtAt, path, RFindChar(path, "/"), RFindChar(path, "."))

\* practice.py 373: f"{media_type}_{md5(url)[:8]}{splitext(url)[1]}".  The
\* digest is kept symbolic: the url it was computed from.
FileName(item) == [kind |-> item.kind, digest_of |-> item.url, ext |-> SplitExt(item.url)]

(***************************************************************************)
(* practice.py: download_media and upload_to_drive.  What the network and  *)
(* the Drive service answer is the environment's choice:                   *)
(*   download  "ok"          status 200 and every chunk arrives            *)
(*             "http_error"  a status other than 200                       *)
(*             "exception"   requests.get raises                           *)
(*             "partial"     status 200, the file is opened, then          *)
(*                           iter_content raises                           *)
(*   upload    "ok" or "fail" (any exception of the Drive client)          *)
(* Each call waits for the network; the scripts of other sessions and the  *)
(* user act during the wait.                                               *)
(***************************************************************************)
DownloadOutcomes == {"ok", "http_error", "exception", "partial"}
UploadOutcomes == {"ok", "fail"}

\* download_media without the test of the status code (practice.py 97)
download_media_any_status(filepath, d) ==
    [ filepath |-> IF d \in {"ok", "http_error"} THEN Some(filepath) ELSE Absent,
      created  |-> d \in {"ok", "http_error", "partial"},
      reported |-> d \in {"exception", "partial"} ]

\* practice.py 92-108: the path returned (None is Absent), whether a file was
\* created on disk, and whether st.error was called
download_media(filepath, d) ==
    [ filepath |-> IF d = "ok" THEN Some(filepath) ELSE Absent,
      created  |-> d \in {"ok", "partial"},
      reported |-> d \in {"exception", "partial"} ]

\* upload_to_drive returning a link whatever Drive answered
upload_to_drive_always_link(filepath, u) ==
    [ link     |-> Some(filepath),
      reported |-> u # "ok" ]

\* practice.py 64-90: the link returned (None is Absent) and whether st.error
\* was called
upload_to_drive(filepath, u) ==
    [ link     |-> IF u = "ok" THEN Some(filepath) ELSE Absent,
      reported |-> u # "ok" ]

(***************************************************************************)
(* Inputs                                                                  *)
(***************************************************************************)
RECURSIVE SeqsOfLen(_, _)
SeqsOfLen(S, n) ==
    IF n = 0 THEN {<<>>}
    ELSE {Append(sq, x) : sq \in SeqsOfLen(S, n - 1), x \in S}

SeqsUpTo(S, n) == UNION {SeqsOfLen(S, k) : k \in 0..n}

RECURSIVE Flatten(_)
Flatten(sqs) == IF sqs = <<>> THEN <<>> ELSE Head(sqs) \o Flatten(Tail(sqs))

MaxPosts == 3
MaxElems == 2
MaxGallery == 2
MaxTail == 1
MaxTokens == 3
MaxCands == 3

URL_A_JPG == <<"h","t","t","p","s",":","/","/","i",".","r","e","d","d",".","i","t","/","a",".","j","p","g">>
URL_A_JPG_ENC == <<"h","t","t","p","s",":","/","/","i",".","r","e","d","d",".","i","t","/","%","6","1",".","j","p","g">>
URL_B_PNG_UP == <<"h","t","t","p","s",":","/","/","i",".","r","e","d","d",".","i","t","/","b",".","P","N","G">>
URL_TEXT == <<"h","t","t","p","s",":","/","/","w","w","w",".","r","e","d","d","i","t",".","c","o","m","/","r","/","x","/","1">>
URL_VIDEO == <<"h","t","t","p","s",":","/","/","v",".","r","e","d","d",".","i","t","/","x","/","D","A","S","H","_","7","2","0",".","m","p","4","?","s","o","u","r","c","e","=","f","a","l","l","b","a","c","k">>
URL_VIDEO_CLEAN == <<"h","t","t","p","s",":","/","/","v",".","r","e","d","d",".","i","t","/","x","/","D","A","S","H","_","7","2","0",".","m","p","4">>
URL_PREVIEW == <<"h","t","t","p","s",":","/","/","p","r","e","v","i","e","w",".","r","e","d","d",".","i","t","/","p",".","j","p","g","?","s","=","1","&","a","m","p",";","w","=","2">>
URL_PREVIEW_CLEAN == <<"h","t","t","p","s",":","/","/","p","r","e","v","i","e","w",".","r","e","d","d",".","i","t","/","p",".","j","p","g","?","s","=","1","&","w","=","2">>
URL_G1 == <<"h","t","t","p","s",":","/","/","i",".","r","e","d","d",".","i","t","/","g","1",".","j","p","g","?","s","=","1">>
URL_G2 == <<"h","t","t","p","s",":","/","/","i",".","r","e","d","d",".","i","t","/","g","2",".","j","p","g">>
BASE_URL == <<"h","t","t","p","s",":","/","/","s","i","t","e",".","c","o","m","/","p","a","g","e">>

ID_A == <<"m","A">>
ID_B == <<"m","B">>
ID_C == <<"m","C">>
ID_D == <<"m","D">>
ID_E == <<"m","E">>
ID_X == <<"m","X">>

\* media_metadata of the gallery posts: mA and mB are valid images, mC a valid
\* animated image, mD a failed upload (status only), mE a valid image without
\* a source; mX is not a key
MetaTable ==
    [ m \in {ID_A, ID_B, ID_C, ID_D, ID_E} |->
        IF m = ID_A THEN [status |-> "valid", e |-> Some("Image"), u |-> Some(URL_G1)]
        ELSE IF m = ID_B THEN [status |-> "valid", e |-> Some("Image"), u |-> Some(URL_G2)]
        ELSE IF m = ID_C THEN [status |-> "valid", e |-> Some("AnimatedImage"), u |-> Absent]
        ELSE IF m = ID_D THEN [status |-> "failed", e |-> Absent, u |-> Absent]
        ELSE [status |-> "valid", e |-> Some("Image"), u |-> Absent] ]
GalleryIds == {ID_A, ID_B, ID_C, ID_D, ID_E, ID_X}

NoGallery == [tag |-> "absent", items |-> <<>>]
NoneGallery == [tag |-> "none", items |-> <<>>]
Gallery(items) == [tag |-> "dict", items |-> items]
NoUrl == [tag |-> "absent", s |-> <<>>]
NoneUrl == [tag |-> "none", s |-> <<>>]
Url(s) == [tag |-> "str", s |-> s]
NoMedia == [tag |-> "absent", fallback |-> Absent]
NoneMedia == [tag |-> "none", fallback |-> Absent]
MediaDict(fallback) == [tag |-> "dict", fallback |-> fallback]
NoPreview == [tag |-> "absent", images |-> Absent]
NonePreview == [tag |-> "none", images |-> Absent]
Preview(images) == [tag |-> "dict", images |-> images]

Post(id, gallery_data, media_metadata, url, is_video, media, preview) ==
    [ id |-> id, gallery_data |-> gallery_data, media_metadata |-> media_metadata,
      url |-> url, is_video |-> is_video, media |-> media, preview |-> preview ]

\* The posts of the search scans
PDirect == Post(<<"p","1">>, NoGallery, Absent, Url(URL_A_JPG), "false", NoneMedia, NoPreview)
PDirectEnc == Post(<<"p","2">>, NoGallery, Absent, Url(URL_A_JPG_ENC), "false", NoneMedia, NoPreview)
PVideo == Post(<<"p","3">>, NoGallery, Absent, Url(URL_TEXT), "true",
               MediaDict(Some(URL_VIDEO)), Preview(Some(<<Some(URL_PREVIEW)>>)))
PPreview == Post(<<"p","4">>, NoGallery, Absent, Url(URL_TEXT), "false", NoneMedia,
                 Preview(Some(<<Some(URL_PREVIEW)>>)))
PGallery == Post(<<"p","5">>, Gallery(<<ID_A, ID_D, ID_B>>), Some(MetaTable), Url(URL_TEXT),
                 "false", NoneMedia, NoPreview)
PBrokenGallery == Post(<<"p","6">>, Gallery(<<ID_A, ID_X, ID_B>>), Some(MetaTable),
                       Url(URL_TEXT), "false", NoneMedia, NoPreview)
PNoIsVideo == Post(<<"p","7">>, NoGallery, Absent, Url(URL_B_PNG_UP), "absent", NoMedia, NoPreview)
PText == Post(<<"p","8">>, NoGallery, Absent, Url(URL_TEXT), "false", NoneMedia, NoPreview)

SearchPosts == {PDirect, PDirectEnc, PVideo, PPreview, PGallery, PBrokenGallery, PNoIsVideo, PText}

\* The elements of the scanned pages
Elem(tag, src, data_src, data_original, width, height) ==
    [ tag |-> tag, src |-> src, data_src |-> data_src, data_original |-> data_original,
      width |-> width, height |-> height ]

SRC_B_PNG == <<"/","i","m","g","/","b",".","p","n","g">>
SRC_B_PNG_ABS_Q == <<"h","t","t","p","s",":","/","/","s","i","t","e",".","c","o","m","/","i","m","g","/","b",".","p","n","g","?","x","=","1">>
SRC_CDN_VIDEO == <<"/","/","c","d","n",".","e","x","a","m","p","l","e",".","c","o","m","/","v",".","m","p","4","?","t","=","1">>
SRC_CDN_A_JPG == <<"/","/","c","d","n",".","e","x","a","m","p","l","e",".","c","o","m","/","a",".","j","p","g","?","x","=","1">>
URL_SITE_B_PNG == <<"h","t","t","p","s",":","/","/","s","i","t","e",".","c","o","m","/","i","m","g","/","b",".","p","n","g">>
SRC_FTP_BRACKET == <<"f","t","p",":","/","/","[","x","/","a",".","p","n","g">>
URL_CDN_VIDEO == <<"h","t","t","p","s",":","/","/","c","d","n",".","e","x","a","m","p","l","e",".","c","o","m","/","v",".","m","p","4","?","t","=","1">>
URL_OTHER_PNG == <<"h","t","t","p","s",":","/","/","s","i","t","e",".","c","o","m","/","i","m","g","/","o",".","p","n","g">>
DIM_10 == <<"1","0">>
DIM_200 == <<"2","0","0">>

ImgBig == Elem("img", Some(SRC_B_PNG), Absent, Absent, Some(DIM_200), Some(DIM_200))
ImgBigQuery == Elem("img", Some(SRC_B_PNG_ABS_Q), Absent, Absent, Some(DIM_200), Some(DIM_200))
ImgSmall == Elem("img", Some(SRC_CDN_A_JPG), Absent, Absent, Some(DIM_10), Some(DIM_10))
VideoCdn == Elem("video", Some(SRC_CDN_VIDEO), Absent, Absent, Absent, Absent)
SourceSame == Elem("source", Some(SRC_B_PNG), Absent, Absent, Absent, Absent)
ImgBracket == Elem("img", Some(SRC_FTP_BRACKET), Absent, Absent, Some(DIM_200), Some(DIM_200))

PageElems == {ImgBig, ImgBigQuery, ImgSmall, VideoCdn, SourceSame, ImgBracket}
PagePosts == {PVideo, PGallery}
PageOutcomes == {"ok", "http_error", "exception"}

HtmlTarget(soup) == [kind |-> "html", soup |-> soup, post |-> PText]
RedditTarget(p) == [kind |-> "reddit", soup |-> <<>>, post |-> p]

\* the pages and posts a session can be given
PageTargets ==
    {HtmlTarget(sp) : sp \in SeqsUpTo(PageElems, MaxElems)}
        \cup {RedditTarget(p) : p \in PagePosts}

(***************************************************************************)
(* State                                                                   *)
(***************************************************************************)
VARIABLES
    mode,           \* which program runs: "search" (main.py), "page" (practice.py),
                    \* or a function under test
    pc,             \* where it stands
    ui,             \* what was shown by st.warning / st.error / st.markdown, in order
    posts,          \* main.py: the search results
    media_only,     \* main.py: the checkbox
    i,              \* main.py: posts consumed by the loop
    media_urls,     \* main.py: the list the loop extends
    result,         \* main.py: what get_reddit_search_media returned
    target,         \* practice.py: the page or post behind the url entered
    folder_id,      \* practice.py: whether a Drive folder id was extracted
    session_media,  \* practice.py: st.session_state.media_urls
    idx,            \* practice.py: items consumed by the Save loop
    files,          \* practice.py: the files present under downloads/
    fetched,        \* practice.py: the urls requested by download_media, in order
    responses,      \* practice.py: what the network and Drive answered, per item
    uploads,        \* practice.py: the paths handed to upload_to_drive, in order
    removed,        \* practice.py: the paths os.remove deleted, in order
    rerun,          \* practice.py: the user acted during the Save run; streamlit stops
                    \* the script at its next call of a streamlit command
    status_text,    \* practice.py: the status line
    arg,            \* function under test: its input
    ret             \* function under test: its results

vars == << mode, pc, ui, posts, media_only, i, media_urls, result, target, folder_id,
           session_media, idx, files, fetched, responses, uploads, removed, rerun,
           status_text, arg, ret >>

searchVars == << posts, media_only, i, media_urls, result >>
pageVars == << target, folder_id, session_media, idx, files, fetched, responses, uploads,
               removed, rerun, status_text >>
fnVars == << arg, ret >>

Msg(level, what, n) == [level |-> level, what |-> what, n |-> n]
Status(text, n, total) == [text |-> text, n |-> n, total |-> total]

SearchIdle ==
    /\ posts = <<>> /\ media_only = FALSE /\ i = 0 /\ media_urls = <<>> /\ result = <<>>
PageIdle ==
    /\ target = HtmlTarget(<<>>) /\ folder_id = FALSE /\ session_media = <<>> /\ idx = 0
    /\ files = {} /\ fetched = <<>> /\ responses = <<>> /\ uploads = <<>> /\ removed = <<>>
    /\ rerun = FALSE /\ status_text = Status("", 0, 0)
FnIdle == arg = <<>> /\ ret = <<>>

(***************************************************************************)
(* main.py: the search scan, one loop iteration per step                   *)
(***************************************************************************)
SearchInit ==
    /\ mode = "search" /\ pc = "scan" /\ ui = <<>>
    /\ posts \in SeqsUpTo(SearchPosts, MaxPosts)
    /\ media_only \in BOOLEAN
    /\ i = 0 /\ media_urls = <<>> /\ result = <<>>
    /\ PageIdle /\ FnIdle

\* main.py 101-113 and 126-128: one iteration of the loop.  When the call of
\* progress_bar.progress or the media_only test raises, the except clause of
\* get_reddit_search_media reports and returns []
ScanPost ==
    /\ mode = "search" /\ pc = "scan" /\ i < Len(posts)
    /\ IF ~Has(progress_bar) \/ MediaFilter(posts[i + 1], media_only) = "raise"
       THEN /\ result' = <<>>
            /\ ui' = Append(ui, Msg("error", "search", i + 1))
            /\ pc' = "returned"
            /\ UNCHANGED << i, media_urls >>
       ELSE /\ i' = i + 1
            /\ IF MediaFilter(posts[i + 1], media_only) = "skip"
               THEN UNCHANGED << media_urls, ui >>
               ELSE /\ media_urls' = media_urls \o get_media_from_submission(posts[i + 1])
                    /\ ui' = IF SubmissionWarns(posts[i + 1])
                             THEN Append(ui, Msg("warning", "post", i + 1)) ELSE ui
            /\ UNCHANGED << pc, result >>
    /\ UNCHANGED << mode, posts, media_only, pageVars, fnVars >>

\* main.py 115-124: the loop is over; clean, remove duplicates, return
ScanReturn ==
    /\ mode = "search" /\ pc = "scan" /\ i = Len(posts)
    /\ result' = CleanDedup(media_urls)
    /\ pc' = "returned"
    /\ UNCHANGED << mode, ui, posts, media_only, i, media_urls, pageVars, fnVars >>

\* main.py 175, 194, 209: what requests.get does
GetOutcomes == {"ok", "http_error", "exception"}

\* main.py 173-185, 192-204, 207-219: the st.error calls of one loop over the
\* items of the given kinds; a status other than 200 is skipped in silence
DownloadErrors(media, kinds, answers) ==
    SelectSeq([n \in 1..Len(media) |-> Msg("error", "download", n)],
              LAMBDA m : media[m.n].kind \in kinds /\ answers[m.n] = "exception")

\* main.py 153-221: what main shows once get_reddit_search_media has returned:
\* the two "Download All" loops when their button reads pressed, the loop of
\* the individual files, or the warning of an empty result
ShowResults ==
    /\ mode = "search" /\ pc = "returned"
    /\ \E all_images, all_videos \in BOOLEAN :
          \E a1, a2, a3 \in SeqsOfLen(GetOutcomes, Len(result)) :
              ui' = ui \o (IF result = <<>> THEN <<Msg("warning", "no_media", 0)>>
                           ELSE (IF all_images THEN DownloadErrors(result, {"image"}, a1)
                                 ELSE <<>>)
                                \o (IF all_videos THEN DownloadErrors(result, {"video"}, a2)
                                    ELSE <<>>)
                                \o DownloadErrors(result, {"image", "video"}, a3))
    /\ pc' = "done"
    /\ UNCHANGED << mode, posts, media_only, i, media_urls, result, pageVars, fnVars >>

(***************************************************************************)
(* practice.py: main.  "Scan for Media", then "Save to Google Drive"       *)
(***************************************************************************)
PageInit ==
    /\ mode = "page" /\ pc = "input" /\ ui = <<>>
    /\ target \in PageTargets
    /\ folder_id \in BOOLEAN
    /\ session_media = <<>> /\ idx = 0 /\ files = {} /\ fetched = <<>> /\ responses = <<>>
    /\ uploads = <<>> /\ removed = <<>> /\ rerun = FALSE /\ status_text = Status("", 0, 0)
    /\ SearchIdle /\ FnIdle

\* practice.py 342-351: what the scan collects, given how the fetch went.  A
\* post is fetched by the first read of one of its fields, inside the try block
\* of get_reddit_media: a failed fetch leaves nothing collected
Scanned(t, f) ==
    IF f # "ok" THEN <<>>
    ELSE IF t.kind = "reddit" THEN get_reddit_media(t.post)
    ELSE extract_media_from_html(t.soup, BASE_URL).out

\* practice.py 345-351: st.error is called when requests.get or
\* extract_media_from_html raises; a non-200 answer is only skipped
ScanReports(t, f) ==
    /\ t.kind = "html"
    /\ (f = "exception" \/ (f = "ok" /\ extract_media_from_html(t.soup, BASE_URL).raised))

\* practice.py 306-307: st.warning when the fetch of the post or the reading
\* of its fields raises
ScanWarns(t, f) == t.kind = "reddit" /\ (f # "ok" \/ SubmissionWarns(t.post))

ScanForMedia ==
    /\ mode = "page" /\ pc = "input"
    /\ \E f \in PageOutcomes :
          /\ session_media' = RemoveDuplicates(Scanned(target, f))
          /\ ui' = ui
                   \o (IF ScanReports(target, f) THEN <<Msg("error", "scan", 0)>> ELSE <<>>)
                   \o (IF ScanWarns(target, f) THEN <<Msg("warning", "post", 0)>> ELSE <<>>)
                   \o (IF session_media' = <<>>
                       THEN <<Msg("warning", "no_media", 0)>> ELSE <<>>)
    /\ pc' = "scanned"
    /\ UNCHANGED << mode, target, folder_id, idx, files, fetched, responses, uploads,
                    removed, rerun, status_text, searchVars, fnVars >>

\* practice.py 366-370: the button shows only with media and a folder id
ClickSave ==
    /\ mode = "page" /\ pc = "scanned"
    /\ session_media # <<>> /\ folder_id
    /\ pc' = "saving"
    /\ idx' = 0
    /\ UNCHANGED << mode, ui, target, folder_id, session_media, files, fetched, responses,
                    uploads, removed, rerun, status_text, searchVars, fnVars >>

\* practice.py 382-383: the end of an iteration.  A pending rerun stops the
\* script at progress_bar.progress, before the status line is written
EndIteration(shown) ==
    IF rerun
    THEN /\ pc' = "stopped"
         /\ UNCHANGED << ui, idx, status_text >>
    ELSE /\ pc' = "saving"
         /\ ui' = ui \o shown
         /\ idx' = idx + 1
         /\ status_text' = Status("processed", idx + 1, Len(session_media))

\* practice.py 372-374 with 92-101 and 105-108: the iteration starts and
\* requests.get answers.  On status 200 the file is opened and the iteration
\* waits for the chunks; otherwise download_media returns None and the
\* iteration ends
SaveFetch ==
    /\ mode = "page" /\ pc = "saving" /\ idx < Len(session_media)
    /\ \E d \in DownloadOutcomes :
          LET item == session_media[idx + 1]
              path == FileName(item)
              got == download_media(path, d)
          IN  /\ fetched' = Append(fetched, item.url)
              /\ responses' = Append(responses, [download |-> d, upload |-> "none"])
              /\ IF got.created
                 THEN /\ files' = files \cup {path}
                      /\ pc' = "writing"
                      /\ UNCHANGED << ui, idx, status_text >>
                 ELSE /\ files' = files
                      /\ EndIteration(IF got.reported
                                      THEN <<Msg("error", "download", idx + 1)>> ELSE <<>>)
    /\ UNCHANGED << mode, target, folder_id, session_media, uploads, removed, rerun,
                    searchVars, fnVars >>

\* practice.py 102-106 and 376-377: the chunks have arrived and upload_to_drive
\* is called with the path, or iter_content raised and the iteration ends with
\* the file left where it is
SaveWrite ==
    /\ mode = "page" /\ pc = "writing"
    /\ LET path == FileName(session_media[idx + 1])
           got == download_media(path, responses[idx + 1].download)
       IN  IF Has(got.filepath)
           THEN /\ uploads' = Append(uploads, path)
                /\ pc' = "uploading"
                /\ UNCHANGED << ui, idx, status_text >>
           ELSE /\ uploads' = uploads
                /\ EndIteration(IF got.reported
                                THEN <<Msg("error", "download", idx + 1)>> ELSE <<>>)
    /\ UNCHANGED << mode, target, folder_id, session_media, files, fetched, responses,
                    removed, rerun, searchVars, fnVars >>

\* practice.py 64-90 and 377-383: upload_to_drive returns, the file is removed
\* and the link is shown.  A pending rerun stops the script at st.error inside
\* the except clause of upload_to_drive, before os.remove.  os.remove raises
\* FileNotFoundError out of main() when the file is no longer there
SaveUpload ==
    /\ mode = "page" /\ pc = "uploading"
    /\ \E u \in UploadOutcomes :
          LET path == FileName(session_media[idx + 1])
              sent == upload_to_drive(path, u)
          IN  /\ responses' = [responses EXCEPT ![idx + 1].upload = u]
              /\ IF sent.reported /\ rerun
                 THEN /\ pc' = "stopped"
                      /\ UNCHANGED << ui, idx, status_text, files, removed >>
                 ELSE IF path \notin files
                 THEN /\ pc' = "failed"
                      /\ ui' = ui \o (IF sent.reported
                                      THEN <<Msg("error", "upload", idx + 1)>> ELSE <<>>)
                      /\ UNCHANGED << idx, status_text, files, removed >>
                 ELSE /\ files' = files \ {path}
                      /\ removed' = Append(removed, path)
                      /\ EndIteration((IF sent.reported
                                       THEN <<Msg("error", "upload", idx + 1)>> ELSE <<>>)
                                      \o (IF Has(sent.link)
                                          THEN <<Msg("success", "uploaded", idx + 1)>>
                                          ELSE <<>>))
    /\ UNCHANGED << mode, target, folder_id, session_media, fetched, uploads, rerun,
                    searchVars, fnVars >>

\* practice.py 385.  A pending rerun stops the script at status_text.text
SaveComplete ==
    /\ mode = "page" /\ pc = "saving" /\ idx = Len(session_media)
    /\ IF rerun
       THEN pc' = "stopped" /\ status_text' = status_text
       ELSE pc' = "complete" /\ status_text' = Status("complete", idx, Len(session_media))
    /\ UNCHANGED << mode, ui, target, folder_id, session_media, idx, files, fetched,
                    responses, uploads, removed, rerun, searchVars, fnVars >>

\* practice.py 342-356 in any session: the items the pages and posts of
\* PageTargets give when scanned
ScannedMedia ==
    UNION {{RemoveDuplicates(Scanned(t, "ok"))[n] :
               n \in 1..Len(RemoveDuplicates(Scanned(t, "ok")))} : t \in PageTargets}

\* practice.py 342-356 and 373 in another session of the same process: the
\* items it holds are those of whatever page or post it scanned, this
\* session's or any other (ScannedMedia, written out), or one that no page of
\* this session has; each is written into downloads/ under the name made of
\* its kind and url
OtherSessionMedia ==
    { Pair("image", URL_SITE_B_PNG), Pair("video", URL_SITE_B_PNG),
      Pair("video", URL_CDN_VIDEO), Pair("image", URL_G1), Pair("image", URL_G2),
      Pair("video", URL_VIDEO), Pair("image", URL_OTHER_PNG) }
OtherSessionFiles == {FileName(item) : item \in OtherSessionMedia}

\* every item a scan of this session can give is one the other session can hold
OtherSessionHoldsScans == ScannedMedia \subseteq OtherSessionMedia

\* practice.py 372-379 run by the script of another session of the same
\* process: open(filepath, 'wb') at line 101 creates its file in downloads/
\* (a file already there under that name stays one file) and os.remove at line
\* 378 removes the file of that name, whichever session wrote it
OtherSessionSaves ==
    /\ mode = "page"
    /\ \E p \in OtherSessionFiles :
          files' = IF p \in files THEN files \ {p} ELSE files \cup {p}
    /\ UNCHANGED << mode, pc, ui, target, folder_id, session_media, idx, fetched, responses,
                    uploads, removed, rerun, status_text, searchVars, fnVars >>

\* practice.py 367-385: the user acts on the page while the Save run waits
UserInteracts ==
    /\ mode = "page" /\ pc \in {"saving", "writing", "uploading"}
    /\ ~rerun
    /\ rerun' = TRUE
    /\ UNCHANGED << mode, pc, ui, target, folder_id, session_media, idx, files, fetched,
                    responses, uploads, removed, status_text, searchVars, fnVars >>

Init == SearchInit \/ PageInit

\* one session, left to run
Next == ScanPost \/ ScanReturn \/ ShowResults \/ ScanForMedia \/ ClickSave
        \/ SaveFetch \/ SaveWrite \/ SaveUpload \/ SaveComplete

Spec == Init /\ [][Next]_vars

\* The Save loop is sequential code: once started, each call returns and each
\* step and the final status update run.  The search loop likewise.  Clicking
\* a button is the user's.
FairSpec ==
    /\ Init /\ [][Next]_vars
    /\ WF_vars(SaveFetch) /\ WF_vars(SaveWrite) /\ WF_vars(SaveUpload) /\ WF_vars(SaveComplete)
    /\ WF_vars(ScanPost) /\ WF_vars(ScanReturn) /\ WF_vars(ShowResults)

\* The session together with what happens during its waits: the user acting
\* on the page and another session saving into the same downloads/ directory
EnvNext == Next \/ UserInteracts \/ OtherSessionSaves

EnvSpec == Init /\ [][EnvNext]_vars

(***************************************************************************)
(* The extractors applied to one submission and to one page                *)
(***************************************************************************)
GalleryVariants ==
    {NoGallery, NoneGallery} \cup {Gallery(items) : items \in SeqsUpTo(GalleryIds, MaxGallery)}
UrlVariants == {NoUrl, NoneUrl, Url(URL_B_PNG_UP), Url(URL_TEXT)}
VideoFlags == {"absent", "true", "false"}
MediaVariants == {NoMedia, NoneMedia, MediaDict(Absent), MediaDict(Some(URL_VIDEO))}
PreviewVariants ==
    { NoPreview, NonePreview, Preview(Absent), Preview(Some(<<>>)),
      Preview(Some(<<Absent>>)), Preview(Some(<<Some(URL_PREVIEW)>>)) }

PostDomain ==
    { Post(<<"p","1">>, g, Some(MetaTable), u, v, m, pv) :
        g \in GalleryVariants, u \in UrlVariants, v \in VideoFlags,
        m \in MediaVariants, pv \in PreviewVariants }

SRC_ICON == <<"h","t","t","p","s",":","/","/","s",".","c","o","/","I","c","o","n",".","p","n","g">>
SRC_REL_GIF == <<"c",".","g","i","f","?","v","=","2">>
SRC_LAZY == <<"/","l","a","z","y",".","j","p","g","?","l","=","1">>
SRC_ORIG == <<"o","r","i","g",".","w","e","b","p">>
DIM_50 == <<"5","0">>
DIM_200PX == <<"2","0","0","p","x">>
DIM_ABC == <<"a","b","c">>

SrcVariants ==
    { Absent, Some(<<>>), Some(SRC_CDN_A_JPG), Some(SRC_B_PNG), Some(SRC_ICON),
      Some(SRC_REL_GIF), Some(SRC_FTP_BRACKET) }
DimVariants ==
    {Absent, Some(DIM_10), Some(DIM_50), Some(DIM_200), Some(DIM_200PX), Some(DIM_ABC)}

ElemDomain ==
    { Elem(tag, src, ds, orig, w, h) :
        tag \in {"img", "video", "source"}, src \in SrcVariants,
        ds \in {Absent, Some(SRC_LAZY)}, orig \in {Absent, Some(SRC_ORIG)},
        w \in DimVariants, h \in DimVariants }

TailElems == {ImgBig, VideoCdn}
SoupDomain == {<<el>> \o rest : el \in ElemDomain, rest \in SeqsUpTo(TailElems, MaxTail)}

ExtractInit ==
    /\ mode \in {"post", "html"}
    /\ pc = "ready" /\ ui = <<>>
    /\ arg \in IF mode = "post" THEN PostDomain ELSE SoupDomain
    /\ ret = <<>>
    /\ SearchIdle /\ PageIdle

\* one submission through main.py (alone in a search, with and without the
\* media_only test) and through practice.py
ApplyPost ==
    /\ mode = "post" /\ pc = "ready"
    /\ ret' = [ scan     |-> SubmissionScan(arg),
                filtered |-> get_reddit_search_media(<<arg>>, TRUE),
                searched |-> get_reddit_search_media(<<arg>>, FALSE),
                praw     |-> get_reddit_media(arg) ]
    /\ pc' = "applied"
    /\ UNCHANGED << mode, ui, arg, searchVars, pageVars >>

\* one page through practice.py
ApplyHtml ==
    /\ mode = "html" /\ pc = "ready"
    /\ ret' = extract_media_from_html(arg, BASE_URL)
    /\ pc' = "applied"
    /\ UNCHANGED << mode, ui, arg, searchVars, pageVars >>

ExtractNext == ApplyPost \/ ApplyHtml

ExtractSpec == ExtractInit /\ [][ExtractNext]_vars

(***************************************************************************)
(* The cleaning steps and the duplicate removals applied to given inputs   *)
(***************************************************************************)
UrlTokens ==
    { <<"%","2","5">>, <<"4","1">>, <<"&">>, <<"a","m","p",";">>, <<"a">>, <<"?">>,
      <<"/">>, <<"/","/">>, <<"h","t","t","p","s",":">>, <<".">>, <<"#">> }
POST_URL_PREFIX == <<"h","t","t","p","s",":","/","/","h","/">>

Cand1 == Media("image", URL_A_JPG, <<"1">>)
Cand2 == Media("video", URL_A_JPG_ENC, <<"2">>)
Cand3 == Media("image", URL_PREVIEW, <<"3">>)
Cand4 == Media("video", URL_PREVIEW_CLEAN, <<"4">>)
Cand5 == Media("video", URL_VIDEO, <<"5">>)
Cand6 == Media("image", URL_A_JPG, <<"6">>)
CandPool == {Cand1, Cand2, Cand3, Cand4, Cand5, Cand6}

FnInit ==
    /\ mode \in {"norm", "dedup"}
    /\ pc = "ready" /\ ui = <<>>
    /\ arg \in IF mode = "norm"
               THEN {Flatten(ts) : ts \in SeqsUpTo(UrlTokens, MaxTokens) \ {<<>>}}
               ELSE SeqsUpTo(CandPool, MaxCands)
    /\ ret = <<>>
    /\ SearchIdle /\ PageIdle

\* a cleaning step of practice.py applied to its own result
Again(F(_, _), once) == IF once.raised THEN once ELSE F(once.out, BASE_URL)

\* each cleaning step applied once and twice: main.py 119 to a post url,
\* practice.py 127-131 to an image source, practice.py 138-141 to a video source
ApplyNorm ==
    /\ mode = "norm" /\ pc = "ready"
    /\ ret' = [ post1 |-> CleanUrl(POST_URL_PREFIX \o arg),
                post2 |-> CleanUrl(CleanUrl(POST_URL_PREFIX \o arg)),
                img1  |-> NormalizeImageSrc(arg, BASE_URL),
                img2  |-> Again(NormalizeImageSrc, NormalizeImageSrc(arg, BASE_URL)),
                vid1  |-> Absolutize(arg, BASE_URL),
                vid2  |-> Again(Absolutize, Absolutize(arg, BASE_URL)) ]
    /\ pc' = "applied"
    /\ UNCHANGED << mode, ui, arg, searchVars, pageVars >>

\* main.py 115-124 and practice.py 353-356 on the same candidate list
ApplyDedup ==
    /\ mode = "dedup" /\ pc = "ready"
    /\ ret' = [ cleaned |-> CleanDedup(arg),
                unique  |-> RemoveDuplicates(PairsOf(arg)) ]
    /\ pc' = "applied"
    /\ UNCHANGED << mode, ui, arg, searchVars, pageVars >>

FnNext == ApplyNorm \/ ApplyDedup

FnSpec == FnInit /\ [][FnNext]_vars

(***************************************************************************)
(* Claims about the search scan and the Save-to-Drive run                  *)
(***************************************************************************)
UrlsOf(items) == {items[k].url : k \in 1..Len(items)}

\* C1 (as stated): when the search scan has returned, the candidates of every
\* post that was kept and did not itself fail the media_only test are in the
\* result, whatever happened to the other posts.
C1_FailureNeverAborts ==
    (mode = "search" /\ pc = "done") =>
        \A k \in 1..Len(posts) :
            MediaFilter(posts[k], media_only) = "keep" =>
                \A n \in 1..Len(get_media_from_submission(posts[k])) :
                    CleanUrl(get_media_from_submission(posts[k])[n].url) \in UrlsOf(result)

\* C5 (as stated): when the Save-to-Drive run is complete, no file the run
\* created is left under downloads/.
C5_ScratchFilesRemoved == (mode = "page" /\ pc = "complete") => files = {}

\* C9 (as stated): every item whose download ended with a status other than
\* 200 has an error message of its own shown to the user.
C9_HttpErrorReported ==
    mode = "page" =>
        \A n \in 1..Len(responses) :
            responses[n].download = "http_error" =>
                \E m \in 1..Len(ui) : ui[m].level = "error" /\ ui[m].n = n

SuccessCount == Cardinality({m \in 1..Len(ui) : ui[m].level = "success"})
BothOk == [download |-> "ok", upload |-> "ok"]

\* The items are requested once each, in list order, and the items that show
\* a success are exactly those that were downloaded and uploaded.
SaveRunInOrder ==
    mode = "page" =>
        /\ idx <= Len(session_media)
        /\ Len(responses) \in {idx, idx + 1} /\ Len(responses) <= Len(session_media)
        /\ fetched = [n \in 1..Len(responses) |-> session_media[n].url]
        /\ \A a, b \in 1..Len(fetched) : a # b => fetched[a] # fetched[b]
        /\ \A m \in 1..Len(ui) :
              ui[m].level = "success" => ui[m].n <= idx /\ responses[ui[m].n] = BothOk
        /\ SuccessCount = Cardinality({n \in 1..idx : responses[n] = BothOk})
        /\ (pc = "complete" =>
              /\ idx = Len(session_media)
              /\ status_text = Status("complete", Len(session_media), Len(session_media)))

\* C8: in the Save-to-Drive run every item of the list is requested exactly
\* once and in list order, a failed item never shows as a success, and a run
\* that has started always reaches "Processing complete" with every item
\* processed, whatever mix of HTTP errors, network errors and upload failures
\* the items meet.
C8_SaveRunCompletes ==
    /\ []SaveRunInOrder
    /\ (mode = "page" /\ pc = "saving") ~> (pc = "complete" /\ idx = Len(session_media))

\* C8 witness: a completed run of two items, the first answered with an HTTP
\* error and the second saved.
C8_Witness ==
    /\ mode = "page" /\ pc = "complete" /\ Len(session_media) = 2
    /\ responses[1].download = "http_error"
    /\ responses[2] = BothOk
    /\ SuccessCount = 1
(***************************************************************************)
(* Claims about the extractors                                             *)
(***************************************************************************)
HasQuery(url) == \E k \in 1..Len(url) : url[k] = "?"

\* a width or height that gives the size test no number: absent, or not an
\* integer once the unit is taken off
DimUnknown(attr) == ~Has(attr) \/ ~IsIntText(Strip(Val(attr), {"p", "x"}))

\* C3 (as stated): an img element with a source free of junk words, whose width
\* or height is absent or is no integer, is emitted as an Image candidate.
C3_UnknownSizeNotRejected ==
    (mode = "html" /\ pc = "applied" /\ arg[1].tag = "img"
       /\ Has(ImgSource(arg[1])) /\ ~IsJunk(Val(ImgSource(arg[1])))
       /\ (DimUnknown(arg[1].width) \/ DimUnknown(arg[1].height)))
    => /\ ret.out # <<>>
       /\ ret.out[1] =
             Pair("image", NormalizeImageSrc(Val(ImgSource(arg[1])), BASE_URL).out)

PostResults == ret.scan.out \o ret.filtered \o ret.searched \o ret.praw
VideoPost ==
    /\ arg.gallery_data.tag = "absent" /\ arg.url.tag # "none"
    /\ arg.is_video = "true" /\ arg.media = MediaDict(Some(URL_VIDEO))
VideosIn(items) == SelectSeq(items, LAMBDA it : it.kind = "video")

\* C4 (as stated): no item returned by extraction has a query in its url, and
\* the video post of the example yields one Video item with the query removed.
C4_NoQueryAnywhere ==
    pc = "applied" =>
        /\ mode = "html" => \A n \in 1..Len(ret.out) : ~HasQuery(ret.out[n].url)
        /\ mode = "post" =>
              /\ \A n \in 1..Len(PostResults) : ~HasQuery(PostResults[n].url)
              /\ VideoPost =>
                    VideosIn(ret.scan.out) = <<Media("video", URL_VIDEO_CLEAN, VideoName(arg.id))>>

EndsInImageExt(s) ==
    \E ext \in ImageExts :
        /\ Len(s) >= Len(ext)
        /\ LowerOfStr(SubSeq(s, Len(s) - Len(ext) + 1, Len(s))) = ext
DirectLinkPost == arg.url.tag = "str" /\ EndsInImageExt(arg.url.s)

\* C6 (as stated): a post whose link ends in an image extension yields an
\* Image candidate built from that link, gallery data or not.
C6_DirectLinkAlways ==
    (mode = "post" /\ pc = "applied" /\ DirectLinkPost) =>
        \E n \in 1..Len(ret.scan.out) :
            ret.scan.out[n].kind = "image" /\ ret.scan.out[n].url = arg.url.s

\* C6 (amended): a post without a gallery_data attribute whose link ends
\* (case-insensitively) in an image extension yields, as its first candidate,
\* the Image built from that link and named {id}_image.{ext}; a post that has
\* the gallery_data attribute yields no candidate from its link.
C6_DirectLinkUnlessGallery ==
    (mode = "post" /\ pc = "applied" /\ DirectLinkPost) =>
        IF arg.gallery_data.tag = "absent"
        THEN /\ ret.scan.out # <<>>
             /\ ret.scan.out[1] =
                   Media("image", arg.url.s,
                         arg.id \o <<"_","i","m","a","g","e",".">> \o SplitLast(arg.url.s, "."))
             /\ ret.praw # <<>> /\ ret.praw[1] = Pair("image", arg.url.s)
        ELSE /\ \A n \in 1..Len(ret.scan.out) : ret.scan.out[n].url # arg.url.s
             /\ \A n \in 1..Len(ret.praw) : ret.praw[n].url # arg.url.s

\* C6 witness: a post with a link ending in .PNG, no gallery data and a hosted
\* video: the Image from the link, then the Video.
C6_Witness ==
    /\ mode = "post" /\ pc = "applied"
    /\ arg.url = Url(URL_B_PNG_UP) /\ arg.gallery_data.tag = "absent"
    /\ Len(ret.scan.out) = 2
    /\ ret.scan.out[1].kind = "image" /\ ret.scan.out[1].url = URL_B_PNG_UP
    /\ ret.scan.out[2].kind = "video"

\* gallery data in which every item names an entry of media_metadata that has
\* the fields its status and type call for
WellFormedIds == {ID_A, ID_B, ID_C, ID_D}
WellFormedGallery ==
    /\ arg.gallery_data.tag = "dict"
    /\ \A k \in 1..Len(arg.gallery_data.items) : arg.gallery_data.items[k] \in WellFormedIds
ValidImageItems ==
    SelectSeq(arg.gallery_data.items,
              LAMBDA m : MetaTable[m].status = "valid" /\ MetaTable[m].e = Some("Image"))
ExpectedGallery ==
    [ n \in 1..Len(ValidImageItems) |->
        Media("image", Val(MetaTable[ValidImageItems[n]].u),
              <<"g","a","l","l","e","r","y","_">> \o arg.id \o <<"_">> \o ValidImageItems[n]
                 \o <<".","j","p","g">>) ]
IsGalleryName(filename) == StartsWith(filename, <<"g","a","l","l","e","r","y","_">>)

\* C10: for a post with well-formed gallery data the candidates start with one
\* Image per gallery item that is valid and of type Image, in item order, each
\* with the entry's source url, and no other candidate comes from the gallery;
\* practice.py collects the same urls in the same order.
C10_OneImagePerValidItem ==
    (mode = "post" /\ pc = "applied" /\ WellFormedGallery) =>
        /\ Len(ret.scan.out) >= Len(ExpectedGallery)
        /\ SubSeq(ret.scan.out, 1, Len(ExpectedGallery)) = ExpectedGallery
        /\ \A n \in (Len(ExpectedGallery) + 1)..Len(ret.scan.out) :
              ~IsGalleryName(ret.scan.out[n].filename)
        /\ \A n \in 1..Len(ExpectedGallery) :
              \E m \in 1..Len(ret.praw) : ret.praw[m] = Pair("image", ExpectedGallery[n].url)

\* C10 witness: a gallery of a failed item followed by a valid image
C10_Witness ==
    /\ mode = "post" /\ pc = "applied"
    /\ arg.gallery_data = Gallery(<<ID_D, ID_B>>)
    /\ ret.scan.out # <<>>
    /\ ret.scan.out[1] = Media("image", URL_G2, GalleryName(arg.id, ID_B))
    /\ \A n \in 2..Len(ret.scan.out) : ~IsGalleryName(ret.scan.out[n].filename)

(***************************************************************************)
(* Claims about the cleaning steps and the duplicate removals              *)
(***************************************************************************)
NoTwoSameUrl(out) == \A a, b \in 1..Len(out) : a # b => out[a].url # out[b].url

\* the positions of keys that hold the first occurrence of their key
FirstPositions(keys) == {k \in 1..Len(keys) : \A j \in 1..(k - 1) : keys[j] # keys[k]}
NthOf(S, n) == CHOOSE k \in S : Cardinality({j \in S : j < k}) = n - 1

\* out is items cut down to the first item of each key, in the order of items
FirstOfEachKey(items, keys, out) ==
    /\ Len(out) = Cardinality(FirstPositions(keys))
    /\ \A n \in 1..Len(out) : out[n] = items[NthOf(FirstPositions(keys), n)]

CleanedKeys == [k \in 1..Len(arg) |-> CleanUrl(arg[k].url)]
CleanedItems ==
    [k \in 1..Len(arg) |-> Media(arg[k].kind, CleanedKeys[k], arg[k].filename)]
GivenPairs == [k \in 1..Len(arg) |-> Pair(arg[k].kind, arg[k].url)]
GivenKeys == [k \in 1..Len(arg) |-> arg[k].url]

\* C2: the list main.py 115-124 builds holds no two items with the same cleaned
\* url, and is the input cut down to the first item of each cleaned url (with
\* that item's kind and filename) in input order; the list practice.py 353-356
\* builds is the same for the urls as they reach it.
C2_DedupFirstWins ==
    (mode = "dedup" /\ pc = "applied") =>
        /\ NoTwoSameUrl(ret.cleaned)
        /\ FirstOfEachKey(CleanedItems, CleanedKeys, ret.cleaned)
        /\ NoTwoSameUrl(ret.unique)
        /\ FirstOfEachKey(GivenPairs, GivenKeys, ret.unique)

\* C2 witness: an image, then a video whose url cleans to the image's url, then
\* another item: the video is dropped, the image and the last item stay.
C2_Witness ==
    /\ mode = "dedup" /\ pc = "applied" /\ Len(arg) = 3
    /\ arg[1].kind = "image" /\ arg[2].kind = "video"
    /\ arg[1].url # arg[2].url /\ CleanUrl(arg[2].url) = CleanUrl(arg[1].url)
    /\ Len(ret.cleaned) = 2
    /\ ret.cleaned[1].kind = "image" /\ ret.cleaned[1].filename = arg[1].filename
    /\ ret.cleaned[2].filename = arg[3].filename
    /\ Len(ret.unique) = 3

HasEscape(s) ==
    \E k \in 1..(Len(s) - 2) :
        s[k] = "%" /\ LowerOfStr(<<s[k + 1]>>)[1] \in HexSet /\ LowerOfStr(<<s[k + 2]>>)[1] \in HexSet
HasAmpEntity(s) ==
    \E k \in 1..(Len(s) - 4) : SubSeq(s, k, k + 4) = <<"&","a","m","p",";">>

\* C7 (as stated): cleaning twice gives what cleaning once gives, for the post
\* pipeline and for the HTML pipeline.
C7_CleaningIdempotent ==
    (mode = "norm" /\ pc = "applied") =>
        /\ ret.post2 = ret.post1
        /\ ret.img2 = ret.img1

\* C7 (amended): the HTML cleaning steps (images and videos) are idempotent.
\* The cleaning of a post url is idempotent exactly when the cleaned url holds
\* no percent escape and no '&amp;': unquote decodes one level only and the
\* replacement is one pass, so a doubly encoded url changes again.
C7_HtmlIdempotentPostOnDecoded ==
    (mode = "norm" /\ pc = "applied") =>
        /\ ret.img2 = ret.img1
        /\ ret.vid2 = ret.vid1
        /\ (ret.post2 = ret.post1) <=> (~HasEscape(ret.post1) /\ ~HasAmpEntity(ret.post1))

\* C7 witness: %2541 cleans to %41, which cleans to A
C7_Witness ==
    /\ mode = "norm" /\ pc = "applied"
    /\ arg = <<"%","2","5","4","1">>
    /\ ret.post1 = POST_URL_PREFIX \o <<"%","4","1">>
    /\ ret.post2 = POST_URL_PREFIX \o <<"A">>
    /\ ret.img2 = ret.img1

(***************************************************************************)
(* Claims about the size and junk filter of the page scan                  *)
(***************************************************************************)
\* a declared dimension as the claim reads it: the text without one trailing
\* "px", when that is an integer
WithoutPx(t) == IF EndsWith(t, <<"p","x">>) THEN SubSeq(t, 1, Len(t) - 2) ELSE t
Declared(attr) == Has(attr) /\ IsIntText(WithoutPx(Val(attr)))
DeclaredValue(attr) == IntOf(WithoutPx(Val(attr)))

\* width and height both declared, at least one below 50
DeclaredSmall(el) ==
    /\ Declared(el.width) /\ Declared(el.height)
    /\ (DeclaredValue(el.width) < 50 \/ DeclaredValue(el.height) < 50)

\* the source holds one of the five words, whatever the case
NamedJunk(el) ==
    /\ Has(ImgSource(el))
    /\ \E w \in { <<"t","h","u","m","b","n","a","i","l">>, <<"i","c","o","n">>,
                 <<"a","v","a","t","a","r">>, <<"e","m","o","j","i">> ,
                 <<"l","o","a","d","i","n","g">> } :
          \E k \in 1..(Len(Val(ImgSource(el))) - Len(w) + 1) :
              LowerOfStr(SubSeq(Val(ImgSource(el)), k, k + Len(w) - 1)) = w

\* the img elements of the page that neither rule excludes
MayYieldImage ==
    {k \in 1..Len(arg) :
        arg[k].tag = "img" /\ Has(ImgSource(arg[k]))
        /\ ~DeclaredSmall(arg[k]) /\ ~NamedJunk(arg[k])}
ImagesIn(items) == SelectSeq(items, LAMBDA it : it.kind = "image")

\* C11: every Image item of the page scan comes from an img element that is
\* not declared small and whose source names no junk word, one item per
\* element at most; the small image of the example gives no candidate, the
\* 200x200 image of the example gives the one Image https://site.com/img/b.png.
C11_SmallAndJunkImagesRejected ==
    (mode = "html" /\ pc = "applied") =>
        /\ Len(ImagesIn(ret.out)) <= Cardinality(MayYieldImage)
        /\ \A n \in 1..Len(ImagesIn(ret.out)) :
              \E k \in MayYieldImage :
                  ImagesIn(ret.out)[n].url =
                      SplitFirst(Absolutize(Val(ImgSource(arg[k])), BASE_URL).out, "?")
        /\ (arg[1].tag = "img" /\ (DeclaredSmall(arg[1]) \/ NamedJunk(arg[1]))) =>
              Len(ImagesIn(ret.out)) <= Len(arg) - 1
        /\ arg = <<ImgSmall>> => ret = Done(<<>>)
        /\ arg = <<ImgBig>> => ret = Done(<<Pair("image", URL_SITE_B_PNG)>>)

\* C11 witness: the small image of the example followed by the 200x200 one:
\* only the second is emitted.
C11_Witness ==
    /\ mode = "html" /\ pc = "applied"
    /\ arg = <<ImgSmall, ImgBig>>
    /\ ret = Done(<<Pair("image", URL_SITE_B_PNG)>>)

(***************************************************************************)
(* Claims about the hosted-video and preview branches of a post            *)
(***************************************************************************)
\* the hosted-video branch matched: flagged video and a media attribute
VideoMatched == arg.is_video = "true" /\ arg.media.tag # "absent"

\* the preview items of the two extractors of a post
PreviewItems(items) ==
    SelectSeq(items, LAMBDA it : it.filename = PreviewName(arg.id))
PreviewPairs(items) ==
    SelectSeq(items, LAMBDA it : it = Pair("image", URL_PREVIEW_CLEAN))

\* preview data with an absent key or an empty image list, looked up after the
\* gallery and direct-link part went through and the video branch did not match
MalformedPreview ==
    arg.preview \in {Preview(Absent), Preview(Some(<<>>)), Preview(Some(<<Absent>>))}
WithoutPreview == [arg EXCEPT !.preview = NoPreview]
PreviewEvaluated ==
    /\ ~GalleryOrDirect(arg).raised
    /\ arg.is_video # "absent" /\ ~VideoMatched
    /\ arg.preview.tag # "absent"

\* C12: a post never yields both a Video item and a preview Image item; when
\* the hosted-video branch matched there is no preview item; malformed preview
\* data yields no preview item, raises nothing, and leaves exactly the items
\* collected from the gallery or the direct link, as for the same post
\* without a preview attribute.
C12_PreviewOnlyWithoutVideo ==
    (mode = "post" /\ pc = "applied") =>
        /\ ~(VideosIn(ret.scan.out) # <<>> /\ PreviewItems(ret.scan.out) # <<>>)
        /\ ~(VideosIn(ret.praw) # <<>> /\ PreviewPairs(ret.praw) # <<>>)
        /\ VideoMatched =>
              PreviewItems(ret.scan.out) = <<>> /\ PreviewPairs(ret.praw) = <<>>
        /\ (PreviewEvaluated /\ MalformedPreview) =>
              /\ ~ret.scan.raised
              /\ PreviewItems(ret.scan.out) = <<>> /\ PreviewPairs(ret.praw) = <<>>
              /\ ret.scan.out = GalleryOrDirect(arg).out
              /\ ret.scan = SubmissionScan(WithoutPreview)
              /\ ret.praw = get_reddit_media(WithoutPreview)

\* C12 witness: a direct image link on a post flagged video with no media
\* attribute and an empty preview image list: the image is kept, nothing is
\* raised, no preview item appears.
C12_Witness ==
    /\ mode = "post" /\ pc = "applied"
    /\ arg.gallery_data.tag = "absent" /\ arg.url = Url(URL_B_PNG_UP)
    /\ arg.is_video = "true" /\ arg.media = NoMedia
    /\ arg.preview = Preview(Some(<<>>))
    /\ ~ret.scan.raised
    /\ Len(ret.scan.out) = 1 /\ ret.scan.out[1].url = URL_B_PNG_UP
    /\ ret.praw = <<Pair("image", URL_B_PNG_UP)>>


(***************************************************************************)
(* Claims about the order of download, upload and removal in the Save run  *)
(***************************************************************************)
\* the items requested so far with their answers, and those whose download
\* has returned a path
Processed ==
    [n \in 1..Len(responses) |->
        [n |-> n, path |-> FileName(session_media[n]), answer |-> responses[n]]]
Downloaded ==
    SelectSeq(Processed,
              LAMBDA x : x.answer.download = "ok" /\ ~(x.n = idx + 1 /\ pc = "writing"))
DownloadedPaths == [j \in 1..Len(Downloaded) |-> Downloaded[j].path]
PathsOf(sq) == {sq[j] : j \in 1..Len(sq)}

\* uploads are those of the downloaded items, in order, and removals follow
\* the uploads one by one; a failed download has no upload and no removal; a
\* link is shown only for an upload that returned one
UploadsFollowDownloads ==
    (mode = "page" /\ Len(responses) <= Len(session_media)) =>
        /\ uploads = DownloadedPaths
        /\ Len(removed) <= Len(uploads)
        /\ removed = SubSeq(uploads, 1, Len(removed))
        /\ Len(uploads) - Len(removed) <= 1
        /\ \A n \in 1..Len(responses) :
              responses[n].download # "ok" =>
                  /\ responses[n].upload = "none"
                  /\ FileName(session_media[n]) \notin PathsOf(uploads) \cup PathsOf(removed)
        /\ \A m \in 1..Len(ui) :
              ui[m].level = "success" =>
                  /\ ui[m].n \in 1..idx
                  /\ responses[ui[m].n].download = "ok"
                  /\ responses[ui[m].n].upload = "ok"
                  /\ FileName(session_media[ui[m].n]) \in PathsOf(removed)
        /\ \A n \in 1..Len(responses) :
              responses[n].upload = "fail" =>
                  ~\E m \in 1..Len(ui) : ui[m].level = "success" /\ ui[m].n = n

\* a step that uploads is the step at which the download of the current item
\* returns its path; a step that removes follows the upload of that path and
\* leaves the file off the disk
UploadStep ==
    /\ (uploads' # uploads =>
            /\ pc = "writing" /\ responses[idx + 1].download = "ok"
            /\ uploads' = Append(uploads, FileName(session_media[idx + 1])))
    /\ (removed' # removed =>
            /\ pc = "uploading" /\ responses[idx + 1].download = "ok"
            /\ uploads[Len(uploads)] = FileName(session_media[idx + 1])
            /\ removed' = Append(removed, FileName(session_media[idx + 1]))
            /\ FileName(session_media[idx + 1]) \notin files')

\* a step for an item whose download failed leaves uploads and removals as
\* they were and shows no link
FailedStep ==
    (Len(responses') > idx /\ responses'[idx + 1].download # "ok") =>
        /\ uploads' = uploads /\ removed' = removed
        /\ \A m \in 1..Len(ui') : ui'[m].level = "success" => m <= Len(ui)

\* C13: in the Save run an upload is made only for an item whose download
\* returned a file path and the file is removed only for those items; an
\* item whose download failed has neither upload nor removal; a Drive link is
\* shown only when the upload returned one.
C13_UploadOnlyAfterDownload ==
    /\ []UploadsFollowDownloads
    /\ [][UploadStep /\ FailedStep]_vars

\* C13 witness: a completed run of two items: the first download broke off
\* after creating its file, the second was downloaded and its upload failed;
\* only the second was uploaded and removed, and no link is shown.
C13_Witness ==
    /\ mode = "page" /\ pc = "complete" /\ Len(session_media) = 2
    /\ responses[1] = [download |-> "partial", upload |-> "none"]
    /\ responses[2] = [download |-> "ok", upload |-> "fail"]
    /\ uploads = <<FileName(session_media[2])>>
    /\ removed = <<FileName(session_media[2])>>
    /\ FileName(session_media[1]) \in files
    /\ \A m \in 1..Len(ui) : ui[m].level # "success"
=============================================================================
